---------------------------- MODULE Spec2Model ----------------------------
(***************************************************************************)
(* Verification model of the GuardTime client library (libgt 0.3.12) as    *)
(* vendored in node-guardtime: the timestamp codec, the response handlers, *)
(* the extension engine and the verification orchestrator of               *)
(* gt_timestamp.c (src/unnamed/part_000).                                  *)
(*                                                                         *)
(* Conventions.                                                            *)
(*  - A C pointer that may be NULL is a sequence of length 0 or 1:         *)
(*    NULL == <<>>, and <<v>> points to v.                                 *)
(*  - Byte strings (ASN1_OCTET_STRING data, hash chains, imprints) are     *)
(*    sequences of naturals in 0..255; C offset i is TLA+ index i + 1.     *)
(*  - Status codes keep their C names, as strings.                         *)
(*  - 64-bit quantities are scaled to UInt64Bits bits, a 32-bit time_t to  *)
(*    TimeT32Bits bits; the arithmetic keeps the (scaled) width.           *)
(***************************************************************************)
EXTENDS Integers, Sequences, FiniteSets, Bags, TLC

NULL == <<>>

Ptr(v) == <<v>>

Deref(p) == p[1]

(***************************************************************************)
(* Bounds of the model.                                                    *)
(***************************************************************************)
\* number of simultaneous modifications applied to a well-formed input
MaxDefects == 2

\* scaled width of GT_UInt64 / GT_HashDBIndex / GT_Time_t64
UInt64Bits == 3

\* scaled width of a 32-bit time_t (builds with sizeof(time_t) < 8)
TimeT32Bits == 2

(***************************************************************************)
(* Hash algorithms (enum GTHashAlgorithm) and digest sizes.                *)
(***************************************************************************)
GT_HASHALG_SHA1 == 0

GT_HASHALG_SHA256 == 1

GT_HASHALG_RIPEMD160 == 2

GT_HASHALG_SHA224 == 3

GT_HASHALG_SHA384 == 4

GT_HASHALG_SHA512 == 5

\* GT_getHashSize(): digest size in bytes, 0 for an unknown algorithm id
GT_getHashSize(alg) ==
  CASE alg = GT_HASHALG_SHA1 -> 20
    [] alg = GT_HASHALG_SHA256 -> 32
    [] alg = GT_HASHALG_RIPEMD160 -> 20
    [] alg = GT_HASHALG_SHA224 -> 28
    [] alg = GT_HASHALG_SHA384 -> 48
    [] alg = GT_HASHALG_SHA512 -> 64
    [] OTHER -> 0

GT_isSupportedHashAlgorithm(alg) == GT_getHashSize(alg) # 0

(***************************************************************************)
(* Byte-string helpers.                                                    *)
(***************************************************************************)
RECURSIVE Pow2(_)
Pow2(n) == IF n = 0 THEN 1 ELSE 2 * Pow2(n - 1)

\* the sequence of n copies of b
Rep(b, n) == [i \in 1..n |-> b]

\* s[from..to] in C offsets, i.e. bytes from .. to-1
Slice(s, from, to) == [i \in 1..(to - from) |-> s[from + i]]

\* bit k (0 = least significant) of byte b
BitOf(b, k) == (b \div Pow2(k)) % 2

\* byte b with bit k flipped
FlipBit(b, k) == IF BitOf(b, k) = 1 THEN b - Pow2(k) ELSE b + Pow2(k)

\* e, with v evaluated first (TLC evaluates definitions on demand; computing
\* an intermediate value before it is used keeps its evaluation stack flat)
After(v, e) == IF v = v THEN e ELSE e

\* bitwise OR of two naturals below 2^n
RECURSIVE BitOr(_, _, _)
BitOr(a, b, n) ==
  IF n = 0 THEN 0
  ELSE (IF a % 2 = 1 \/ b % 2 = 1 THEN 1 ELSE 0) + 2 * BitOr(a \div 2, b \div 2, n - 1)


(***************************************************************************)
(* Location decoder: collectBits, checkName, extractLocation.              *)
(***************************************************************************)
hasher == 80

gdepth_top == 60

gdepth_national == 39

gdepth_state == 19

slot_bits_top == 3

ab_bits_top == 3

slot_bits_national == 2

ab_bits_national == 3

slot_bits_state == 2

ab_bits_state == 2

top_level == gdepth_top + (slot_bits_top + ab_bits_top) - 2

national_level == gdepth_national + (slot_bits_national + ab_bits_national) - 2

state_level == gdepth_state + (slot_bits_state + ab_bits_state) - 2

\* strlen(" : ") and strlen("[00000]")
name_sep == <<32, 58, 32>>

name_sep_len == Len(name_sep)

no_name_len == 7

\* collectBits(buf, &len, num): the last num bits of buf[0..len-1], the most
\* recent bit being the most significant; returns the value and the new len.
\* buf holds the live prefix bits[0..len-1] (index i is TLA+ index i + 1).
RECURSIVE collectBitsLoop(_, _, _, _)
collectBitsLoop(buf, res, len, num) ==
  IF num > 0 /\ len > 0
  THEN collectBitsLoop(buf, 2 * res + buf[len], len - 1, num - 1)
  ELSE [res |-> res, len |-> len]

collectBits(buf, len, num) == collectBitsLoop(buf, 0, len, num)

\* a check that does not look at the bytes after the name
NameProperlyPadded_unchecked(chain, step, hash_len) == TRUE

\* the loop "for (i = 2 + step[3 + 1]; i < hash_len; ++i) if (step[3 + i] != 0)"
NameProperlyPadded(chain, step, hash_len) ==
  \A i \in (2 + chain[step + 3 + 1 + 1])..(hash_len - 1) : chain[step + 3 + i + 1] = 0

\* checkName(steps, &len, &name, &name_len); step is the C offset of the step
\* in the chain. Returns the new len, name and name_len.
checkName(chain, steps, len, name, name_len) ==
  LET same == [len |-> len, name |-> name, name_len |-> name_len]
      hash_len == GT_getHashSize(GT_HASHALG_SHA224)
  IN IF len <= 0 THEN same
     ELSE LET step == steps[len]
          IN IF chain[step + 1 + 1] # 1 THEN same
             ELSE IF chain[step + 2 + 1] # GT_HASHALG_SHA224 THEN same
             ELSE IF chain[step + 3 + 0 + 1] # 0 THEN same
             ELSE IF chain[step + 3 + 1 + 1] + 2 > hash_len THEN same
             ELSE IF ~NameProperlyPadded(chain, step, hash_len) THEN same
             ELSE [len |-> len - 1,
                   name |-> Slice(chain, step + 3 + 2, step + 3 + 2 + chain[step + 3 + 1 + 1]),
                   name_len |-> chain[step + 3 + 1 + 1]]

\* struct LocationInfo loc = {0}
LocationInfo0 ==
  [hasher |-> 0,
   national_cluster |-> 0, national_machine |-> 0, national_slot |-> 0,
   national_name |-> <<>>, national_name_len |-> 0,
   state_cluster |-> 0, state_machine |-> 0, state_slot |-> 0,
   state_name |-> <<>>, state_name_len |-> 0,
   local_cluster |-> 0, local_machine |-> 0, local_slot |-> 0,
   local_name |-> <<>>, local_name_len |-> 0,
   client_id |-> 0, client_name |-> <<>>, client_name_len |-> 0]

\* bits[num_bits] = v / steps[num_bits] = v on the live prefix of an array
ArrayPut(a, idx, v) ==
  IF idx + 1 <= Len(a) THEN [a EXCEPT ![idx + 1] = v] ELSE Append(a, v)

\* the transition "hash_level > top_level && last_level <= top_level"
TopTransition(chain, s) ==
  LET Store(m, sl, n, c) ==
        [s EXCEPT !.num_bits = c.len,
                  !.loc.national_machine = m.res, !.loc.national_slot = sl.res,
                  !.loc.national_name = n.name, !.loc.national_name_len = n.name_len,
                  !.loc.state_cluster = c.res]
      Cluster(m, sl, n) == Store(m, sl, n, collectBits(s.bits, n.len, n.len))
      Name(m, sl) ==
        Cluster(m, sl, checkName(chain, s.steps, sl.len,
                                 s.loc.national_name, s.loc.national_name_len))
      Slot(m) == Name(m, collectBits(s.bits, m.len, slot_bits_top))
  IN Slot(collectBits(s.bits, s.num_bits, ab_bits_top))

\* the transition "hash_level > national_level && last_level <= national_level"
NationalTransition(chain, s) ==
  LET Store(m, sl, n, c) ==
        [s EXCEPT !.num_bits = c.len,
                  !.loc.state_machine = m.res, !.loc.state_slot = sl.res,
                  !.loc.state_name = n.name, !.loc.state_name_len = n.name_len,
                  !.loc.local_cluster = c.res]
      Cluster(m, sl, n) == Store(m, sl, n, collectBits(s.bits, n.len, n.len))
      Name(m, sl) ==
        Cluster(m, sl, checkName(chain, s.steps, sl.len,
                                 s.loc.state_name, s.loc.state_name_len))
      Slot(m) == Name(m, collectBits(s.bits, m.len, slot_bits_national))
  IN Slot(collectBits(s.bits, s.num_bits, ab_bits_national))

\* the transition "hash_level > state_level && last_level <= state_level"
StateTransition(chain, s) ==
  LET Store(m, sl, n, c) ==
        [s EXCEPT !.num_bits = c.len,
                  !.loc.local_machine = m.res, !.loc.local_slot = sl.res,
                  !.loc.local_name = n.name, !.loc.local_name_len = n.name_len,
                  !.loc.client_id = c.res]
      Cluster(m, sl, n) == Store(m, sl, n, collectBits(s.bits, n.len, n.len))
      Name(m, sl) ==
        Cluster(m, sl, checkName(chain, s.steps, sl.len,
                                 s.loc.local_name, s.loc.local_name_len))
      Slot(m) == Name(m, collectBits(s.bits, m.len, slot_bits_state))
  IN Slot(collectBits(s.bits, s.num_bits, ab_bits_state))

\* the transition "hash_level > 1 && last_level <= 1"
ClientTransition(chain, s) ==
  LET Store(n) == [s EXCEPT !.num_bits = n.len,
                            !.loc.client_name = n.name, !.loc.client_name_len = n.name_len]
  IN Store(checkName(chain, s.steps, s.num_bits, s.loc.client_name, s.loc.client_name_len))

\* "last_level = hash_level; bits[num_bits++] = hash_bit;"
PushBit(s, hash_bit, hash_level) ==
  [s EXCEPT !.last_level = hash_level,
            !.bits = ArrayPut(SubSeq(s.bits, 1, s.num_bits), s.num_bits, hash_bit),
            !.num_bits = s.num_bits + 1]

\* the body of the for ( ; ; ) loop after the step has been parsed
LocationStep(chain, s, hash_bit, hash_level) ==
  LET Push(s4) == PushBit(s4, hash_bit, hash_level)
      Client(s3) == Push(IF hash_level > 1 /\ s.last_level <= 1
                         THEN ClientTransition(chain, s3) ELSE s3)
      State(s2) == Client(IF hash_level > state_level /\ s.last_level <= state_level
                          THEN StateTransition(chain, s2) ELSE s2)
      National(s1) == State(IF hash_level > national_level /\ s.last_level <= national_level
                            THEN NationalTransition(chain, s1) ELSE s1)
  IN National(IF hash_level > top_level /\ s.last_level <= top_level
              THEN TopTransition(chain, s) ELSE s)

\* lines 1030-1057 of the for ( ; ; ) loop: the step at s.p is remembered in
\* steps[num_bits] and parsed; s.p is the C offset p - hash_chain->data. res
\* stays GT_UNKNOWN_ERROR while the loop goes on
extractLocationParse(chain, s) ==
  LET length == Len(chain)
      fail == [res |-> "GT_INVALID_LINKING_INFO", s |-> s, hash_bit |-> 0, hash_level |-> 0]
      Level(p3) ==
        IF p3 >= length THEN fail
        ELSE [res |-> "GT_UNKNOWN_ERROR",
              s |-> [s EXCEPT !.steps = ArrayPut(s.steps, s.num_bits, s.p), !.p = p3 + 1],
              hash_bit |-> 1 - chain[s.p + 2],
              hash_level |-> chain[p3 + 1]]
      Size(p2, hash_size) == IF hash_size = 0 THEN fail ELSE Level(p2 + 1 + hash_size)
  IN IF s.p + 1 >= length THEN fail
     ELSE IF chain[s.p + 2] # 0 /\ chain[s.p + 2] # 1 THEN fail
     ELSE IF s.p + 2 >= length THEN fail
     ELSE Size(s.p + 2, GT_getHashSize(chain[s.p + 3]))

\* the branch "hash_level > hasher && last_level <= hasher", which ends the loop
HasherTransition(s, hash_bit, hash_level) ==
  LET Done(c) ==
        [s EXCEPT !.res = "GT_OK",
                  !.loc.hasher = IF hash_level = 255 THEN 1 + hash_bit
                                 ELSE hash_level - hasher,
                  !.loc.national_cluster = c.res,
                  !.num_bits = c.len]
  IN Done(collectBits(s.bits, s.num_bits, s.num_bits))

\* one pass of the for ( ; ; ) loop of extractLocation
extractLocationPass(chain, s) ==
  LET Parsed(r) ==
        IF r.res # "GT_UNKNOWN_ERROR" THEN [s EXCEPT !.res = r.res]
        ELSE IF r.hash_level > hasher /\ s.last_level <= hasher
        THEN HasherTransition(r.s, r.hash_bit, r.hash_level)
        ELSE LocationStep(chain, r.s, r.hash_bit, r.hash_level)
  IN Parsed(extractLocationParse(chain, s))

\* the for ( ; ; ) loop of extractLocation
RECURSIVE extractLocationLoop(_, _)
extractLocationLoop(chain, s) ==
  LET Again(s1) == IF s1.res = "GT_UNKNOWN_ERROR" THEN extractLocationLoop(chain, s1) ELSE s1
  IN Again(extractLocationPass(chain, s))

\* decimal digits of a natural, for sprintf("[%d]", ...)
RECURSIVE Digits(_)
Digits(n) == IF n < 10 THEN <<48 + n>> ELSE Digits(n \div 10) \o <<48 + (n % 10)>>

NoName(cluster) == <<91>> \o Digits(cluster) \o <<93>>

\* tmp_id: the four fields or-ed into a 64-bit value 16 bits apart, given as
\* the four 16-bit limbs <<bits 48-63, bits 32-47, bits 16-31, bits 0-15>>
PackLocationId(loc) ==
  <<BitOr(loc.national_cluster % 65536, loc.state_cluster \div 65536, 16),
    BitOr(loc.state_cluster % 65536, loc.local_cluster \div 65536, 16),
    BitOr(loc.local_cluster % 65536, loc.client_id \div 65536, 16),
    loc.client_id % 65536>>

\* the location name built at the end of extractLocation (NULL if no name)
BuildLocationName(loc) ==
  IF loc.national_name_len + loc.state_name_len + loc.local_name_len
       + loc.client_name_len > 0
  THEN Ptr((IF loc.national_name_len > 0 THEN loc.national_name
            ELSE NoName(loc.national_cluster))
           \o name_sep
           \o (IF loc.state_name_len > 0 THEN loc.state_name
               ELSE NoName(loc.state_cluster))
           \o name_sep
           \o (IF loc.local_name_len > 0 THEN loc.local_name
               ELSE NoName(loc.local_cluster))
           \o (IF loc.client_name_len > 0 THEN name_sep \o loc.client_name ELSE <<>>))
  ELSE NULL

\* the locals of extractLocation before the loop
LocationState0 ==
  [res |-> "GT_UNKNOWN_ERROR", p |-> 0, num_bits |-> 0, bits |-> <<>>,
   steps |-> <<>>, last_level |-> -1, loc |-> LocationInfo0]

\* extractLocation(hash_chain, &location_id, &location_name): res, and the
\* values written through the out-pointers (written only when res = GT_OK)
extractLocation(hash_chain) ==
  LET Out(s) ==
        IF s.res = "GT_OK"
        THEN [res |-> "GT_OK", location_id |-> PackLocationId(s.loc),
              location_name |-> BuildLocationName(s.loc), loc |-> s.loc]
        ELSE [res |-> s.res, location_id |-> <<0, 0, 0, 0>>, location_name |-> NULL,
              loc |-> s.loc]
  IN Out(extractLocationLoop(hash_chain, LocationState0))


(***************************************************************************)
(* Hash chains on the wire. One step is                                    *)
(*   [0] step algorithm, [1] direction, [2] sibling algorithm,             *)
(*   [3 ..] sibling digest, then the level byte                            *)
(* (offsets as read by extractLocation and checkName).                     *)
(***************************************************************************)
MkStep(alg, dir, sib_alg, sibling, level) == <<alg, dir, sib_alg>> \o sibling \o <<level>>

\* the parsed steps of a chain, or "GT_INVALID_LINKING_INFO" in res when a
\* step is truncated, has a direction byte outside {0, 1} or an unknown
\* algorithm id
RECURSIVE ParseChain(_, _, _)
ParseChain(chain, p, acc) ==
  IF p = Len(chain) THEN [res |-> "GT_OK", steps |-> acc]
  ELSE IF p + 3 > Len(chain) THEN [res |-> "GT_INVALID_LINKING_INFO", steps |-> acc]
  ELSE LET alg == chain[p + 1]
           dir == chain[p + 2]
           sib_alg == chain[p + 3]
           size == GT_getHashSize(sib_alg)
       IN IF GT_getHashSize(alg) = 0 \/ dir \notin {0, 1} \/ size = 0
             \/ p + 3 + size + 1 > Len(chain)
          THEN [res |-> "GT_INVALID_LINKING_INFO", steps |-> acc]
          ELSE LET parsed == Append(acc, [alg |-> alg, dir |-> dir, sib_alg |-> sib_alg,
                                          sibling |-> Slice(chain, p + 3, p + 3 + size),
                                          level |-> chain[p + 3 + size + 1]])
               IN After(parsed, ParseChain(chain, p + 3 + size + 1, parsed))

\* GT_checkHashChain(): every step parses cleanly
GT_checkHashChain(chain) == ParseChain(chain, 0, <<>>).res

\* GT_checkHashChainLengthConsistent(): the levels of the location chain never
\* decrease from one step to the next
GT_checkHashChainLengthConsistent(chain) ==
  LET parsed == ParseChain(chain, 0, <<>>)
  IN IF parsed.res # "GT_OK" THEN parsed.res
     ELSE IF \E i \in 1..(Len(parsed.steps) - 1) :
                parsed.steps[i + 1].level < parsed.steps[i].level
          THEN "GT_INVALID_LENGTH_BYTES"
          ELSE "GT_OK"

\* GT_checkDataImprint(): non-empty, known algorithm id, digest of its size
GT_checkDataImprint(imprint) ==
  IF Len(imprint) < 1 THEN "GT_INVALID_FORMAT"
  ELSE IF GT_getHashSize(imprint[1]) = 0 THEN "GT_INVALID_FORMAT"
  ELSE IF Len(imprint) # 1 + GT_getHashSize(imprint[1]) THEN "GT_INVALID_FORMAT"
  ELSE "GT_OK"

\* GT_shape(): the direction bits of the chain, first step first
GT_shape(chain) ==
  LET parsed == ParseChain(chain, 0, <<>>)
  IN [res |-> parsed.res,
      shape |-> IF parsed.res = "GT_OK"
                THEN [i \in 1..Len(parsed.steps) |-> parsed.steps[i].dir]
                ELSE <<>>]

(***************************************************************************)
(* The digest functions. Hash stands for the six digest algorithms: it is  *)
(* deterministic, yields GT_getHashSize(alg) bytes and depends on the      *)
(* algorithm and on every byte of the input. (It is a checksum, not        *)
(* collision-free; the inputs of the model do not collide.)                *)
(***************************************************************************)
\* position-weighted sum of the bytes (the cardinality of the bag that holds
\* position i (2i + 1) * (data[i] + 1) times)
HashMix(data) == BagCardinality([i \in 1..Len(data) |-> (2 * i + 1) * (data[i] + 1)])

Hash(alg, data) ==
  LET acc == (HashMix(data) + 257 * (alg + 1)) % 65521
  IN [i \in 1..GT_getHashSize(alg) |->
        IF i = 1 THEN acc % 256
        ELSE IF i = 2 THEN acc \div 256
        ELSE (acc + 131 * i) % 256]

\* GT_calculateDataImprint(): algorithm id byte followed by the digest
GT_calculateDataImprint(data, alg) == <<alg>> \o Hash(alg, data)

\* one step of the fold: direction 0 puts the sibling imprint on the left of
\* the running imprint, direction 1 on the right; with_depth appends the
\* level byte to the hashed data
HashStep(imprint, step, with_depth) ==
  LET sib == <<step.sib_alg>> \o step.sibling
      data == (IF step.dir = 0 THEN sib \o imprint ELSE imprint \o sib)
              \o (IF with_depth THEN <<step.level>> ELSE <<>>)
  IN GT_calculateDataImprint(data, step.alg)

RECURSIVE FoldChain(_, _, _, _)
FoldChain(steps, i, imprint, with_depth) ==
  IF i > Len(steps) THEN imprint
  ELSE LET next == HashStep(imprint, steps[i], with_depth)
       IN After(next, FoldChain(steps, i + 1, next, with_depth))

\* GT_hashChainCalculate(): the location chain applied to an imprint
GT_hashChainCalculate(chain, input) ==
  LET parsed == ParseChain(chain, 0, <<>>)
  IN IF parsed.res # "GT_OK" THEN [res |-> "GT_INVALID_FORMAT", output |-> <<>>]
     ELSE [res |-> "GT_OK", output |-> FoldChain(parsed.steps, 1, input, TRUE)]

\* GT_hashChainCalculateNoDepth(): the history chain applied to an imprint
GT_hashChainCalculateNoDepth(chain, input) ==
  LET parsed == ParseChain(chain, 0, <<>>)
  IN IF parsed.res # "GT_OK" THEN [res |-> "GT_INVALID_FORMAT", output |-> <<>>]
     ELSE [res |-> "GT_OK", output |-> FoldChain(parsed.steps, 1, input, FALSE)]

(***************************************************************************)
(* History identifiers. Rounds 0 .. publicationIdentifier are the leaves   *)
(* of a left-complete binary tree; the direction bits of the history chain *)
(* (leaf first) select the leaf.                                           *)
(***************************************************************************)
\* the range of GT_UInt64 / GT_HashDBIndex
UInt64Max == Pow2(UInt64Bits) - 1

\* the largest power of two strictly below n (n >= 2)
RECURSIVE HighPow(_, _)
HighPow(n, m) == IF 2 * m < n THEN HighPow(n, 2 * m) ELSE m

\* walks the shape from its last bit (the step next to the root) to its first
RECURSIVE FindLeaf(_, _, _, _)
FindLeaf(shape, i, n, off) ==
  IF i = 0
  THEN (IF n = 1 THEN [res |-> "GT_OK", idx |-> off]
        ELSE [res |-> "GT_INVALID_FORMAT", idx |-> 0])
  ELSE IF n < 2 THEN [res |-> "GT_INVALID_FORMAT", idx |-> 0]
  ELSE LET m == HighPow(n, 1)
       IN IF shape[i] = 1 THEN FindLeaf(shape, i - 1, m, off)
          ELSE FindLeaf(shape, i - 1, n - m, off + m)

\* GT_findHistoryIdentifier(publication_identifier, shape, ..., &idx); the
\* publication identifier is an ASN.1 INTEGER and need not fit GT_UInt64
GT_findHistoryIdentifier(publication_identifier, shape) ==
  IF publication_identifier < 0 \/ publication_identifier > UInt64Max
  THEN [res |-> "GT_INVALID_FORMAT", idx |-> 0]
  ELSE FindLeaf(shape, Len(shape), publication_identifier + 1, 0)

\* GT_asn1IntegerToUint64(): 1 and the value when the integer fits, else 0
GT_asn1IntegerToUint64(n) == n >= 0 /\ n <= UInt64Max

\* the value of a GT_UInt64 converted to the signed GT_Time_t64
ToTime_t64(u) == IF u >= Pow2(UInt64Bits - 1) THEN u - Pow2(UInt64Bits) ELSE u


(***************************************************************************)
(* DER values. An encoded value is [ok, value]: ok = FALSE stands for      *)
(* bytes that do not decode. d2i_* returns NULL or a pointer to the        *)
(* decoded structure; i2d_* of the structures that are hashed or signed    *)
(* (TSTInfo, the signed attributes, PublishedData) yields the bytes fed to *)
(* the digest.                                                             *)
(***************************************************************************)
StrCode(str) ==
  CASE str = "absent" -> 0
    [] str = "null" -> 1
    [] str = "other" -> 2
    [] str = "TSTInfo" -> 3
    [] str = "octet" -> 4
    [] str = "V_ASN1_INTEGER" -> 5
    [] str = "V_ASN1_NEG_INTEGER" -> 6
    [] str = "valid" -> 7
    [] str = "malformed" -> 8
    [] str = "overflow" -> 9
    [] str = "none" -> 10
    [] str = "noncritical" -> 11
    [] str = "critical_unknown" -> 12
    [] str = "K2" -> 14
    [] OTHER -> 13

Encoded(v) == [ok |-> TRUE, value |-> v]

Undecodable(v) == [ok |-> FALSE, value |-> v]

\* d2i_GTTSTInfo(), d2i_GTTimeSignature(), d2i_PKCS7(), d2i_GTTimeStampResp(),
\* d2i_GTCertTokenResponse(): NULL when the bytes do not decode
d2i(bytes) == IF bytes.ok THEN Ptr(bytes.value) ELSE NULL

\* ASN1_item_pack() / i2d_PKCS7(): the encoding of a structure
i2d(v) == Encoded(v)

i2d_GTTSTInfo(tst) ==
  <<tst.version, tst.messageImprint.hashAlgorithm.algorithm + 1,
    StrCode(tst.messageImprint.hashAlgorithm.parameter),
    StrCode(tst.serialNumber.type), StrCode(tst.genTime), StrCode(tst.extensions)>>
  \o tst.messageImprint.hashedMessage

\* ASN1_item_i2d(auth_attr, PKCS7_ATTR_SIGN): the signed attributes as SET OF
i2d_PKCS7_ATTR_SIGN(auth_attr) ==
  <<StrCode(auth_attr.contentType), StrCode(auth_attr.messageDigest.type)>>
  \o auth_attr.messageDigest.value

i2d_GTPublishedData(published_data) ==
  <<published_data.publicationIdentifier>> \o published_data.publicationImprint

\* GT_ASN1_TIME_get() on an ASN.1 time of the given class: its status code
GT_ASN1_TIME_get_status(time) ==
  CASE time = "valid" -> "GT_OK"
    [] time = "overflow" -> "GT_TIME_OVERFLOW"
    [] OTHER -> "GT_INVALID_FORMAT"

\* GT_checkUnhandledExtensions(): an unknown critical extension is refused
GT_checkUnhandledExtensions(extensions) ==
  IF extensions = "critical_unknown" THEN "GT_UNSUPPORTED_FORMAT" ELSE "GT_OK"

\* EVP_VerifyFinal(): 1 valid, 0 invalid, -1 failure of the library
EVP_VerifyFinal(md, data, signature, pubkey) ==
  IF signature.form = "error" THEN -1
  ELSE IF signature.key = pubkey /\ signature.data = data /\ signature.md = md THEN 1
  ELSE 0

\* PKCS7_cert_from_signer_info(): the first certificate of the bag whose
\* issuer and serial are those of the signer info, or NULL
RECURSIVE FindCert(_, _, _)
FindCert(cert, issuer_and_serial, i) ==
  IF i > Len(cert) THEN NULL
  ELSE IF cert[i].issuer_and_serial = issuer_and_serial THEN Ptr(cert[i])
  ELSE FindCert(cert, issuer_and_serial, i + 1)

PKCS7_cert_from_signer_info(token, signer_info) ==
  FindCert(token.sign.cert, signer_info.issuer_and_serial, 1)


(***************************************************************************)
(* Memory. mem maps the addresses of the live PKCS7 tokens to their        *)
(* contents; address 0 is the NULL pointer. A GTTimestamp is               *)
(*   [token, tst_info, signer_info, time_signature]                        *)
(* where token is an address, signer_info is 0 or the index of the signer  *)
(* info inside the token (the C field points into the token) and tst_info  *)
(* and time_signature are NULL or decoded copies owned by the timestamp.   *)
(***************************************************************************)
MaxAddr(mem) ==
  IF DOMAIN mem = {} THEN 0
  ELSE CHOOSE a \in DOMAIN mem : \A b \in DOMAIN mem : b <= a

\* a fresh address holding v
Alloc(mem, v) ==
  LET a == MaxAddr(mem) + 1
  IN [mem |-> [x \in DOMAIN mem \cup {a} |-> IF x = a THEN v ELSE mem[x]], addr |-> a]

\* PKCS7_free(): address 0 is ignored
Free(mem, a) == [x \in DOMAIN mem \ {a} |-> mem[x]]

\* GTTimestamp_new(): all four fields NULL
GTTimestamp_new == [token |-> 0, tst_info |-> NULL, signer_info |-> 0, time_signature |-> NULL]

\* timestamp->signer_info dereferenced
SignerInfoOf(mem, timestamp) == mem[timestamp.token].sign.signer_info[timestamp.signer_info]

PKCS7_type_is_signed(token) == token.type = "signed"

PKCS7_get_detached(token) == token.sign.contents.other = NULL

\* GTTimestamp_updateTSTInfo(): the timestamp with tst_info re-read from the token
GTTimestamp_updateTSTInfo(mem, timestamp) ==
  IF timestamp.token = 0
  THEN [res |-> "GT_INVALID_ARGUMENT", timestamp |-> timestamp]
  ELSE LET cleared == [timestamp EXCEPT !.tst_info = NULL]
           token == mem[timestamp.token]
           contents == token.sign.contents
           encoded_tst_info == Deref(contents.other)
           tst_info == d2i(encoded_tst_info.octet_string)
       IN IF ~PKCS7_type_is_signed(token) THEN [res |-> "GT_INVALID_FORMAT", timestamp |-> cleared]
          ELSE IF PKCS7_get_detached(token) THEN [res |-> "GT_INVALID_FORMAT", timestamp |-> cleared]
          ELSE IF contents.type # "TSTInfo" THEN [res |-> "GT_INVALID_FORMAT", timestamp |-> cleared]
          ELSE IF encoded_tst_info.type # "octet" THEN [res |-> "GT_INVALID_FORMAT", timestamp |-> cleared]
          ELSE IF tst_info = NULL THEN [res |-> "GT_INVALID_FORMAT", timestamp |-> cleared]
          ELSE [res |-> "GT_OK", timestamp |-> [cleared EXCEPT !.tst_info = tst_info]]

\* GTTimestamp_updateTimeSignature(): the timestamp with signer_info and
\* time_signature re-read from the token
GTTimestamp_updateTimeSignature(mem, timestamp) ==
  IF timestamp.token = 0
  THEN [res |-> "GT_INVALID_ARGUMENT", timestamp |-> timestamp]
  ELSE LET cleared == [timestamp EXCEPT !.signer_info = 0, !.time_signature = NULL]
           token == mem[timestamp.token]
           pkcs7_signer_infos == token.sign.signer_info
           located == [cleared EXCEPT !.signer_info = 1]
           signer_info == pkcs7_signer_infos[1]
           time_signature == d2i(signer_info.enc_digest)
       IN IF ~PKCS7_type_is_signed(token) THEN [res |-> "GT_INVALID_FORMAT", timestamp |-> cleared]
          ELSE IF Len(pkcs7_signer_infos) # 1 THEN [res |-> "GT_INVALID_FORMAT", timestamp |-> cleared]
          ELSE IF signer_info.digest_enc_alg.algorithm # "gt_time_signature_alg"
                  \/ signer_info.digest_enc_alg.parameter \notin {"absent", "null"}
               THEN [res |-> "GT_INVALID_FORMAT", timestamp |-> located]
          ELSE IF time_signature = NULL THEN [res |-> "GT_INVALID_FORMAT", timestamp |-> located]
          ELSE [res |-> "GT_OK", timestamp |-> [located EXCEPT !.time_signature = time_signature]]

\* GTTimestamp_free() of a timestamp that is not handed out
GTTimestamp_free(mem, timestamp) == Free(mem, timestamp.token)

\* the refresh with the call of GTTimestamp_updateTimeSignature() left out
UpdateAndReturn_stale(mem, tmp_timestamp) ==
  LET u1 == GTTimestamp_updateTSTInfo(mem, tmp_timestamp)
  IN IF u1.res # "GT_OK"
     THEN [res |-> u1.res, mem |-> GTTimestamp_free(mem, u1.timestamp), timestamp |-> NULL]
     ELSE [res |-> "GT_OK", mem |-> mem, timestamp |-> Ptr(u1.timestamp)]

\* refresh of both caches as in the tail of the three constructors; on
\* failure the temporary is freed, on success it is handed out
UpdateAndReturn(mem, tmp_timestamp) ==
  LET u1 == GTTimestamp_updateTSTInfo(mem, tmp_timestamp)
      u2 == GTTimestamp_updateTimeSignature(mem, u1.timestamp)
  IN IF u1.res # "GT_OK"
     THEN [res |-> u1.res, mem |-> GTTimestamp_free(mem, u1.timestamp), timestamp |-> NULL]
     ELSE IF u2.res # "GT_OK"
     THEN [res |-> u2.res, mem |-> GTTimestamp_free(mem, u2.timestamp), timestamp |-> NULL]
     ELSE [res |-> "GT_OK", mem |-> mem, timestamp |-> Ptr(u2.timestamp)]

\* GTTimestamp_DERDecode(data, data_length, &timestamp); data is NULL or
\* points to the bytes
GTTimestamp_DERDecode(mem, data) ==
  IF data = NULL THEN [res |-> "GT_INVALID_ARGUMENT", mem |-> mem, timestamp |-> NULL]
  ELSE LET token == d2i(Deref(data))
       IN IF token = NULL THEN [res |-> "GT_INVALID_FORMAT", mem |-> mem, timestamp |-> NULL]
          ELSE LET a == Alloc(mem, Deref(token))
               IN UpdateAndReturn(a.mem, [GTTimestamp_new EXCEPT !.token = a.addr])

\* GTTimestamp_getDEREncoded(): the DER encoding of the token
GTTimestamp_getDEREncoded(mem, timestamp) ==
  IF timestamp.token = 0 THEN [res |-> "GT_INVALID_ARGUMENT", data |-> NULL]
  ELSE [res |-> "GT_OK", data |-> Ptr(i2d(mem[timestamp.token]))]

\* GT_analyseResponseStatus(): granted and grantedWithMods are success, any
\* other status maps by its failure info
GT_analyseResponseStatus(status) ==
  IF status.status \in {"granted", "grantedWithMods"} THEN "GT_OK"
  ELSE CASE status.failInfo = "badAlg" -> "GT_PKI_BAD_ALG"
         [] status.failInfo = "badRequest" -> "GT_PKI_BAD_REQUEST"
         [] status.failInfo = "badDataFormat" -> "GT_PKI_BAD_DATA_FORMAT"
         [] status.failInfo = "unacceptedPolicy" -> "GT_UNACCEPTED_POLICY"
         [] status.failInfo = "extendLater" -> "GT_NONSTD_EXTEND_LATER"
         [] status.failInfo = "extensionOverdue" -> "GT_NONSTD_EXTENSION_OVERDUE"
         [] OTHER -> "GT_INVALID_FORMAT"

\* GTTimestamp_createTimestamp(response, response_length, &timestamp)
GTTimestamp_createTimestamp(mem, response) ==
  IF response = NULL THEN [res |-> "GT_INVALID_ARGUMENT", mem |-> mem, timestamp |-> NULL]
  ELSE LET resp == d2i(Deref(response))
       IN IF resp = NULL THEN [res |-> "GT_INVALID_FORMAT", mem |-> mem, timestamp |-> NULL]
          ELSE IF GT_analyseResponseStatus(Deref(resp).status) # "GT_OK"
          THEN [res |-> GT_analyseResponseStatus(Deref(resp).status), mem |-> mem,
                timestamp |-> NULL]
          ELSE IF Deref(resp).timeStampToken = NULL
          THEN [res |-> "GT_INVALID_FORMAT", mem |-> mem, timestamp |-> NULL]
          ELSE LET a == Alloc(mem, Deref(Deref(resp).timeStampToken))
               IN UpdateAndReturn(a.mem, [GTTimestamp_new EXCEPT !.token = a.addr])


(***************************************************************************)
(* Extension.                                                              *)
(***************************************************************************)
\* the request refused for a time signature without pkSignature
makeExtensionRequest_refusing(time_signature) ==
  LET history_shape == GT_shape(time_signature.history)
      found == GT_findHistoryIdentifier(
                 time_signature.publishedData.publicationIdentifier, history_shape.shape)
  IN IF time_signature.pkSignature = NULL THEN [res |-> "GT_ALREADY_EXTENDED", request |-> NULL]
     ELSE IF history_shape.res # "GT_OK" THEN [res |-> history_shape.res, request |-> NULL]
     ELSE IF found.res # "GT_OK" THEN [res |-> found.res, request |-> NULL]
     ELSE [res |-> "GT_OK",
           request |-> Ptr([version |-> 1, historyIdentifier |-> found.idx,
                            extensions |-> "none"])]

\* makeExtensionRequest(time_signature, &request)
makeExtensionRequest(time_signature) ==
  LET history_shape == GT_shape(time_signature.history)
      found == GT_findHistoryIdentifier(
                 time_signature.publishedData.publicationIdentifier, history_shape.shape)
  IN IF history_shape.res # "GT_OK" THEN [res |-> history_shape.res, request |-> NULL]
     ELSE IF found.res # "GT_OK" THEN [res |-> found.res, request |-> NULL]
     ELSE [res |-> "GT_OK",
           request |-> Ptr([version |-> 1, historyIdentifier |-> found.idx,
                            extensions |-> "none"])]

\* GTTimestamp_prepareExtensionRequest(timestamp, &request_data, &request_length);
\* timestamp is NULL or points to a timestamp
GTTimestamp_prepareExtensionRequest(timestamp) ==
  IF timestamp = NULL THEN [res |-> "GT_INVALID_ARGUMENT", request_data |-> NULL]
  ELSE IF Deref(timestamp).token = 0 \/ Deref(timestamp).tst_info = NULL
          \/ Deref(timestamp).time_signature = NULL
  THEN [res |-> "GT_INVALID_ARGUMENT", request_data |-> NULL]
  ELSE LET made == makeExtensionRequest(Deref(Deref(timestamp).time_signature))
       IN IF made.res # "GT_OK" THEN [res |-> made.res, request_data |-> NULL]
          ELSE [res |-> "GT_OK", request_data |-> Ptr(i2d(Deref(made.request)))]

\* GT_extendConsistencyCheck(): a time signature without pkSignature is
\* already extended; the cert token must lead from the same round of the
\* history to its publication
GT_extendConsistencyCheck(time_signature, cert_token) ==
  LET old_shape == GT_shape(time_signature.history)
      new_shape == GT_shape(cert_token.history)
      old_id == GT_findHistoryIdentifier(
                  time_signature.publishedData.publicationIdentifier, old_shape.shape)
      new_id == GT_findHistoryIdentifier(
                  cert_token.publishedData.publicationIdentifier, new_shape.shape)
  IN IF time_signature.pkSignature = NULL THEN "GT_ALREADY_EXTENDED"
     ELSE IF old_shape.res # "GT_OK" \/ new_shape.res # "GT_OK" THEN "GT_CANNOT_EXTEND"
     ELSE IF old_id.res # "GT_OK" \/ new_id.res # "GT_OK" THEN "GT_CANNOT_EXTEND"
     ELSE IF old_id.idx # new_id.idx THEN "GT_CANNOT_EXTEND"
     ELSE "GT_OK"

\* GT_extendTimeSignature(): history, publishedData and pubReference of the
\* cert token replace those of the time signature, pkSignature is dropped
GT_extendTimeSignature(time_signature, cert_token) ==
  [location |-> time_signature.location,
   history |-> cert_token.history,
   publishedData |-> cert_token.publishedData,
   pkSignature |-> NULL,
   pubReference |-> cert_token.pubReference]

\* the token shared with the input timestamp instead of copied
PKCS7_dup_shared(mem, token) == [mem |-> mem, addr |-> token]

\* PKCS7_dup(): a deep copy at a fresh address
PKCS7_dup(mem, token) == Alloc(mem, mem[token])

\* ASN1_item_pack(extended_time_signature, ..., &signer_info->enc_digest) and
\* sk_X509_pop_free(token->d.sign->cert) on the token at address a
SpliceTimeSignature(mem, a, extended_time_signature) ==
  [mem EXCEPT ![a].sign.signer_info[1].enc_digest = i2d(extended_time_signature),
              ![a].sign.cert = <<>>]

\* the checks with the presence of certToken tested before the status
ExtendResponseChecks_tokenfirst(time_signature, resp) ==
  IF resp.certToken = NULL THEN "GT_INVALID_FORMAT"
  ELSE IF GT_analyseResponseStatus(resp.status) # "GT_OK"
  THEN GT_analyseResponseStatus(resp.status)
  ELSE IF Deref(resp.certToken).version # 1 THEN "GT_UNSUPPORTED_FORMAT"
  ELSE IF GT_checkUnhandledExtensions(Deref(resp.certToken).extensions) # "GT_OK"
  THEN GT_checkUnhandledExtensions(Deref(resp.certToken).extensions)
  ELSE GT_extendConsistencyCheck(time_signature, Deref(resp.certToken))

\* the checks GTTimestamp_createExtendedTimestamp applies to the decoded
\* response before it builds anything: the code of the first failing check
ExtendResponseChecks(time_signature, resp) ==
  IF GT_analyseResponseStatus(resp.status) # "GT_OK"
  THEN GT_analyseResponseStatus(resp.status)
  ELSE IF resp.certToken = NULL THEN "GT_INVALID_FORMAT"
  ELSE IF Deref(resp.certToken).version # 1 THEN "GT_UNSUPPORTED_FORMAT"
  ELSE IF GT_checkUnhandledExtensions(Deref(resp.certToken).extensions) # "GT_OK"
  THEN GT_checkUnhandledExtensions(Deref(resp.certToken).extensions)
  ELSE GT_extendConsistencyCheck(time_signature, Deref(resp.certToken))

\* GTTimestamp_createExtendedTimestamp(timestamp, response, response_length,
\* &extended_timestamp); fault names the allocation or packing call that
\* fails in this run, "none" when none does
GTTimestamp_createExtendedTimestamp(mem, timestamp, response, fault) ==
  LET fail(code) == [res |-> code, mem |-> mem, timestamp |-> NULL]
  IN IF timestamp = NULL \/ response = NULL THEN fail("GT_INVALID_ARGUMENT")
     ELSE IF Deref(timestamp).token = 0 \/ Deref(timestamp).tst_info = NULL
             \/ Deref(timestamp).time_signature = NULL
     THEN fail("GT_INVALID_ARGUMENT")
     ELSE LET resp == d2i(Deref(response))
              time_signature == Deref(Deref(timestamp).time_signature)
              checks == ExtendResponseChecks(time_signature, Deref(resp))
              extended_time_signature ==
                GT_extendTimeSignature(time_signature, Deref(Deref(resp).certToken))
              dup == PKCS7_dup(mem, Deref(timestamp).token)
              tmp_timestamp == [GTTimestamp_new EXCEPT !.token = dup.addr]
          IN IF resp = NULL THEN fail("GT_INVALID_FORMAT")
             ELSE IF checks # "GT_OK" THEN fail(checks)
             ELSE IF fault \in {"GTTimestamp_new", "PKCS7_dup"} THEN fail("GT_OUT_OF_MEMORY")
             ELSE IF fault = "ASN1_item_pack"
             THEN [res |-> "GT_CRYPTO_FAILURE",
                   mem |-> GTTimestamp_free(dup.mem, tmp_timestamp), timestamp |-> NULL]
             ELSE UpdateAndReturn(
                    SpliceTimeSignature(dup.mem, dup.addr, extended_time_signature),
                    tmp_timestamp)

\* GTTimestamp_isExtended(timestamp); timestamp is NULL or points to a timestamp
GTTimestamp_isExtended(timestamp) ==
  IF timestamp = NULL THEN "GT_INVALID_ARGUMENT"
  ELSE IF Deref(timestamp).time_signature = NULL THEN "GT_INVALID_ARGUMENT"
  ELSE IF Deref(Deref(timestamp).time_signature).pkSignature = NULL THEN "GT_EXTENDED"
  ELSE "GT_NOT_EXTENDED"

\* any of the four pointers checked on entry is NULL
IncompleteTimestamp(timestamp) ==
  \/ timestamp = NULL
  \/ /\ timestamp # NULL
     /\ \/ Deref(timestamp).token = 0
        \/ Deref(timestamp).tst_info = NULL
        \/ Deref(timestamp).time_signature = NULL

\* the comparison of the two identifiers with <= in place of <
GTTimestamp_isEarlierThan_orequal(this_timestamp, that_timestamp) ==
  IF IncompleteTimestamp(this_timestamp) \/ IncompleteTimestamp(that_timestamp)
  THEN "GT_INVALID_ARGUMENT"
  ELSE LET ts1 == Deref(Deref(this_timestamp).time_signature)
           ts2 == Deref(Deref(that_timestamp).time_signature)
           shape1 == GT_shape(ts1.history)
           idx1 == GT_findHistoryIdentifier(ts1.publishedData.publicationIdentifier,
                                            shape1.shape)
           shape2 == GT_shape(ts2.history)
           idx2 == GT_findHistoryIdentifier(ts2.publishedData.publicationIdentifier,
                                            shape2.shape)
       IN IF shape1.res # "GT_OK" THEN shape1.res
          ELSE IF idx1.res # "GT_OK" THEN idx1.res
          ELSE IF shape2.res # "GT_OK" THEN shape2.res
          ELSE IF idx2.res # "GT_OK" THEN idx2.res
          ELSE IF idx1.idx <= idx2.idx THEN "GT_EARLIER"
          ELSE "GT_NOT_EARLIER"

\* GTTimestamp_isEarlierThan(this_timestamp, that_timestamp)
GTTimestamp_isEarlierThan(this_timestamp, that_timestamp) ==
  IF IncompleteTimestamp(this_timestamp) \/ IncompleteTimestamp(that_timestamp)
  THEN "GT_INVALID_ARGUMENT"
  ELSE LET ts1 == Deref(Deref(this_timestamp).time_signature)
           ts2 == Deref(Deref(that_timestamp).time_signature)
           shape1 == GT_shape(ts1.history)
           idx1 == GT_findHistoryIdentifier(ts1.publishedData.publicationIdentifier,
                                            shape1.shape)
           shape2 == GT_shape(ts2.history)
           idx2 == GT_findHistoryIdentifier(ts2.publishedData.publicationIdentifier,
                                            shape2.shape)
       IN IF shape1.res # "GT_OK" THEN shape1.res
          ELSE IF idx1.res # "GT_OK" THEN idx1.res
          ELSE IF shape2.res # "GT_OK" THEN shape2.res
          ELSE IF idx2.res # "GT_OK" THEN idx2.res
          ELSE IF idx1.idx < idx2.idx THEN "GT_EARLIER"
          ELSE "GT_NOT_EARLIER"


(***************************************************************************)
(* Verification.                                                           *)
(***************************************************************************)
GT_NO_FAILURES == 0

GT_SYNTACTIC_CHECK_FAILURE == 1

GT_HASHCHAIN_VERIFICATION_FAILURE == 2

GT_PUBLIC_KEY_SIGNATURE_FAILURE == 16

GT_PUBLIC_KEY_SIGNATURE_PRESENT == 1

GT_PUBLICATION_REFERENCE_PRESENT == 2

\* a | b on the verification bitmaps
Or(a, b) == BitOr(a, b, 8)

\* (a & flag) != 0 for a single-bit flag
HasFlag(a, flag) == (a \div flag) % 2 = 1

\* GT_publishedDataToBase32(): the publication string of the published data
GT_publishedDataToBase32(published_data) ==
  [res |-> "GT_OK", out |-> Ptr(i2d_GTPublishedData(published_data))]

\* the value GT_ASN1_TIME_get() stores for a time of the valid class
TimeValue(time) == IF time = "valid" THEN 1 ELSE 0

\* the (time_t) round trip of createVerificationInfo and
\* addExplicitVerificationInfo: the value is negative as time_t or does not
\* survive the conversion
TimeTOverflow(sizeof_time_t, v) == sizeof_time_t < 8 /\ v >= Pow2(TimeT32Bits - 1)

\* addExplicitVerificationInfo(timestamp, verification_info)
addExplicitVerificationInfo(mem, timestamp, verification_info, sizeof_time_t) ==
  LET tst_info == Deref(timestamp.tst_info)
      signer_info == SignerInfoOf(mem, timestamp)
      published_data == Deref(timestamp.time_signature).publishedData
      hash_algorithm == tst_info.messageImprint.hashAlgorithm.algorithm
      e1 == IF hash_algorithm < 0
            THEN Or(verification_info.verification_errors, GT_SYNTACTIC_CHECK_FAILURE)
            ELSE verification_info.verification_errors
      e2 == IF tst_info.serialNumber.type # "V_ASN1_INTEGER"
            THEN Or(e1, GT_SYNTACTIC_CHECK_FAILURE)
            ELSE e1
      explicit_data ==
        [signed_data_version |-> mem[timestamp.token].sign.version,
         tst_info_version |-> tst_info.version,
         hash_algorithm |-> hash_algorithm,
         issuer_request_time |-> TimeValue(tst_info.genTime),
         signer_info_version |-> signer_info.version,
         digest_algorithm |-> signer_info.digest_alg.algorithm,
         publication_identifier |-> published_data.publicationIdentifier,
         publication_hash_algorithm |->
           IF Len(published_data.publicationImprint) < 1 THEN -1
           ELSE published_data.publicationImprint[1],
         certificate |-> NULL]
      Return(out) ==
        IF GT_ASN1_TIME_get_status(tst_info.genTime) # "GT_OK"
        THEN [res |-> GT_ASN1_TIME_get_status(tst_info.genTime), info |-> out]
        ELSE IF ~GT_asn1IntegerToUint64(published_data.publicationIdentifier)
        THEN [res |-> "GT_INVALID_FORMAT", info |-> out]
        ELSE IF TimeTOverflow(sizeof_time_t, published_data.publicationIdentifier)
        THEN [res |-> "GT_INVALID_FORMAT", info |-> out]
        ELSE IF Len(published_data.publicationImprint) < 1
        THEN [res |-> "GT_INVALID_FORMAT", info |-> out]
        ELSE [res |-> "GT_OK", info |-> out]
  IN Return([verification_info EXCEPT !.verification_errors = e2,
                                      !.explicit_data = Ptr(explicit_data)])

\* setVerifiedPKISignatureInfo(timestamp, verification_info)
setVerifiedPKISignatureInfo(mem, timestamp, verification_info) ==
  LET certificate == PKCS7_cert_from_signer_info(mem[timestamp.token],
                                                 SignerInfoOf(mem, timestamp))
      cert == Deref(certificate)
      published_data ==
        [publicationIdentifier |-> TimeValue(cert.notBefore),
         publicationImprint |-> GT_calculateDataImprint(<<StrCode(cert.key.id)>>,
                                                        GT_HASHALG_SHA256)]
      fingerprint == GT_publishedDataToBase32(published_data)
      with_fp == [verification_info EXCEPT
                    !.implicit_data.public_key_fingerprint = fingerprint.out]
  IN IF certificate = NULL THEN [res |-> "GT_INVALID_FORMAT", info |-> verification_info]
     ELSE IF GT_ASN1_TIME_get_status(cert.notBefore) # "GT_OK"
     THEN [res |-> GT_ASN1_TIME_get_status(cert.notBefore), info |-> verification_info]
     ELSE IF verification_info.explicit_data # NULL
     THEN [res |-> "GT_OK",
           info |-> [with_fp EXCEPT !.explicit_data =
                       Ptr([Deref(with_fp.explicit_data) EXCEPT
                              !.certificate = Ptr(cert.issuer_and_serial)])]]
     ELSE [res |-> "GT_OK", info |-> with_fp]

\* the publication string stored in the field of the key fingerprint
setVerifiedPublicationSignatureInfo_fingerprint(timestamp, verification_info) ==
  LET str == GT_publishedDataToBase32(Deref(timestamp.time_signature).publishedData)
  IN [res |-> str.res,
      info |-> [verification_info EXCEPT !.implicit_data.public_key_fingerprint = str.out]]

\* setVerifiedPublicationSignatureInfo(timestamp, verification_info)
setVerifiedPublicationSignatureInfo(timestamp, verification_info) ==
  LET str == GT_publishedDataToBase32(Deref(timestamp.time_signature).publishedData)
  IN [res |-> str.res,
      info |-> [verification_info EXCEPT !.implicit_data.publication_string = str.out]]


\* a switch that lets GT_INVALID_LINKING_INFO pass unreported
LocationErrors_unreported(tmp_res, verification_errors) == verification_errors

\* "switch (tmp_res)" after extractLocation() in createVerificationInfo: the
\* verification_errors after a result that lets verification go on
LocationErrors(tmp_res, verification_errors) ==
  IF tmp_res = "GT_INVALID_LINKING_INFO"
  THEN Or(verification_errors, GT_SYNTACTIC_CHECK_FAILURE)
  ELSE verification_errors

\* createVerificationInfo(timestamp, &verification_info, parse_data); sys is
\* the build and the run: sizeof(time_t) and whether GT_malloc() succeeds
createVerificationInfo(mem, timestamp, parse_data, sys) ==
  LET time_signature == Deref(timestamp.time_signature)
      info0 == [version |-> 2,
                verification_errors |-> GT_NO_FAILURES,
                verification_status |-> 0,
                implicit_data |-> [location_id |-> <<0, 0, 0, 0>>,
                                   location_name |-> NULL,
                                   registered_time |-> 0,
                                   public_key_fingerprint |-> NULL,
                                   publication_string |-> NULL],
                explicit_data |-> NULL]
      Failed(res) == [res |-> res, info |-> NULL]
      Return(signature_info) ==
        IF signature_info.res # "GT_OK" THEN Failed(signature_info.res)
        ELSE [res |-> "GT_OK", info |-> Ptr(signature_info.info)]
      Sign(info5) ==
        Return(IF ~HasFlag(info5.verification_status, GT_PUBLIC_KEY_SIGNATURE_PRESENT)
               THEN setVerifiedPublicationSignatureInfo(timestamp, info5)
               ELSE setVerifiedPKISignatureInfo(mem, timestamp, info5))
      Locate(info4, location) ==
        IF location.res \notin {"GT_OK", "GT_INVALID_LINKING_INFO"}
        THEN Failed(location.res)
        ELSE Sign([info4 EXCEPT
                     !.verification_errors = LocationErrors(location.res, @),
                     !.implicit_data.location_id = location.location_id,
                     !.implicit_data.location_name = location.location_name])
      Register(info3, tmp_res, idx) ==
        IF tmp_res = "GT_OK"
        THEN Locate([info3 EXCEPT !.implicit_data.registered_time = ToTime_t64(idx)],
                    extractLocation(time_signature.location))
        ELSE IF tmp_res \in {"GT_INVALID_FORMAT", "GT_INVALID_LINKING_INFO",
                             "GT_UNSUPPORTED_FORMAT"}
        THEN Locate([info3 EXCEPT
                       !.verification_errors = Or(@, GT_SYNTACTIC_CHECK_FAILURE),
                       !.implicit_data.registered_time = ToTime_t64(0)],
                    extractLocation(time_signature.location))
        ELSE Failed(tmp_res)
      Identify(info3, found) ==
        Register(info3,
                 IF found.res = "GT_OK" /\ TimeTOverflow(sys.sizeof_time_t, found.idx)
                 THEN "GT_INVALID_FORMAT"
                 ELSE found.res,
                 found.idx)
      Shape(info3, history_shape) ==
        Identify(info3,
                 IF history_shape.res = "GT_OK"
                 THEN GT_findHistoryIdentifier(
                        time_signature.publishedData.publicationIdentifier,
                        history_shape.shape)
                 ELSE [res |-> history_shape.res, idx |-> 0])
      Status(info1) ==
        Shape([[info1 EXCEPT
                  !.verification_status =
                    IF time_signature.pkSignature # NULL
                    THEN Or(@, GT_PUBLIC_KEY_SIGNATURE_PRESENT) ELSE @]
               EXCEPT
                  !.verification_status =
                    IF Len(time_signature.pubReference) > 0
                    THEN Or(@, GT_PUBLICATION_REFERENCE_PRESENT) ELSE @],
              GT_shape(time_signature.history))
      Explicit(explicit) ==
        IF explicit.res # "GT_OK" THEN Failed(explicit.res) ELSE Status(explicit.info)
  IN IF ~sys.malloc_ok THEN Failed("GT_OUT_OF_MEMORY")
     ELSE IF parse_data # 0
     THEN Explicit(addExplicitVerificationInfo(mem, timestamp, info0, sys.sizeof_time_t))
     ELSE Status(info0)

\* checkTimestampSyntax with the signed attributes checked first
checkTimestampSyntax_attributesfirst(mem, timestamp) ==
  LET signer_info == SignerInfoOf(mem, timestamp)
  IN IF signer_info.auth_attr.contentType # "TSTInfo" THEN "GT_INVALID_FORMAT"
     ELSE IF signer_info.auth_attr.messageDigest.type # "octet" THEN "GT_INVALID_FORMAT"
     ELSE IF mem[timestamp.token].sign.version # 3 THEN "GT_UNSUPPORTED_FORMAT"
     ELSE IF Deref(timestamp.tst_info).version # 1 THEN "GT_UNSUPPORTED_FORMAT"
     ELSE IF signer_info.version # 1 THEN "GT_UNSUPPORTED_FORMAT"
     ELSE GT_checkHashChainLengthConsistent(Deref(timestamp.time_signature).location)

\* checkTimestampSyntax(timestamp)
checkTimestampSyntax(mem, timestamp) ==
  LET token == mem[timestamp.token]
      tst_info == Deref(timestamp.tst_info)
      signer_info == SignerInfoOf(mem, timestamp)
      time_signature == Deref(timestamp.time_signature)
  IN IF token.sign.version # 3 THEN "GT_UNSUPPORTED_FORMAT"
     ELSE IF tst_info.version # 1 THEN "GT_UNSUPPORTED_FORMAT"
     ELSE IF signer_info.version # 1 THEN "GT_UNSUPPORTED_FORMAT"
     ELSE IF GT_checkUnhandledExtensions(tst_info.extensions) # "GT_OK"
     THEN GT_checkUnhandledExtensions(tst_info.extensions)
     ELSE IF GT_checkDataImprint(time_signature.publishedData.publicationImprint) # "GT_OK"
     THEN GT_checkDataImprint(time_signature.publishedData.publicationImprint)
     ELSE IF GT_checkHashChain(time_signature.location) # "GT_OK"
     THEN GT_checkHashChain(time_signature.location)
     ELSE IF GT_checkHashChain(time_signature.history) # "GT_OK"
     THEN GT_checkHashChain(time_signature.history)
     ELSE IF GT_checkHashChainLengthConsistent(time_signature.location) # "GT_OK"
     THEN GT_checkHashChainLengthConsistent(time_signature.location)
     ELSE IF signer_info.auth_attr.contentType # "TSTInfo" THEN "GT_INVALID_FORMAT"
     ELSE IF signer_info.auth_attr.messageDigest.type # "octet" THEN "GT_INVALID_FORMAT"
     ELSE "GT_OK"

\* checkHashChain(timestamp)
checkHashChain(mem, timestamp) ==
  LET tst_info == Deref(timestamp.tst_info)
      signer_info == SignerInfoOf(mem, timestamp)
      time_signature == Deref(timestamp.time_signature)
      publicationImprint == time_signature.publishedData.publicationImprint
      alg_server == publicationImprint[1]
      alg_client == signer_info.digest_alg.algorithm
      tmp_imprint == GT_calculateDataImprint(i2d_GTTSTInfo(tst_info), alg_client)
      attribute_value == signer_info.auth_attr.messageDigest
      input == GT_calculateDataImprint(i2d_PKCS7_ATTR_SIGN(signer_info.auth_attr),
                                       alg_client)
      loc_output == GT_hashChainCalculate(time_signature.location, input)
      hist_output == GT_hashChainCalculateNoDepth(time_signature.history,
                                                   loc_output.output)
      output == GT_calculateDataImprint(hist_output.output, alg_server)
  IN IF Len(publicationImprint) < 1 THEN "GT_INVALID_FORMAT"
     ELSE IF ~GT_isSupportedHashAlgorithm(alg_server) THEN "GT_UNTRUSTED_HASH_ALGORITHM"
     ELSE IF alg_client < 0 THEN "GT_UNTRUSTED_HASH_ALGORITHM"
     ELSE IF signer_info.digest_alg.parameter \notin {"absent", "null"}
     THEN "GT_INVALID_FORMAT"
     ELSE IF attribute_value.type # "octet" THEN "GT_INVALID_FORMAT"
     ELSE IF attribute_value.value # Slice(tmp_imprint, 1, Len(tmp_imprint))
     THEN "GT_WRONG_SIGNED_DATA"
     ELSE IF loc_output.res # "GT_OK" THEN loc_output.res
     ELSE IF hist_output.res # "GT_OK" THEN hist_output.res
     ELSE IF output # publicationImprint THEN "GT_INVALID_AGGREGATION"
     ELSE "GT_OK"

\* EVP_get_digestbyobj() on a signature algorithm: its digest, NULL if unknown
EVP_get_digestbyobj(algorithm) ==
  IF algorithm \in {"sha256", "md5"} THEN Ptr(algorithm) ELSE NULL

\* GT_EVPToHashChainID(): negative for a digest that is not trusted
GT_EVPToHashChainID(evp_md) == IF evp_md = "sha256" THEN GT_HASHALG_SHA256 ELSE -1

\* checkPublicKeySignature(timestamp, certificate)
checkPublicKeySignature(timestamp, certificate) ==
  LET time_signature == Deref(timestamp.time_signature)
      algorithm == Deref(time_signature.pkSignature).signatureAlgorithm
      signature == Deref(time_signature.pkSignature).signatureValue
      published_data_der == i2d_GTPublishedData(time_signature.publishedData)
      evp_md == EVP_get_digestbyobj(algorithm.algorithm)
      tmp_res == EVP_VerifyFinal(Deref(evp_md), published_data_der, signature,
                                 certificate.key.id)
  IN IF certificate.key.form # "ok" THEN "GT_CRYPTO_FAILURE"
     ELSE IF evp_md = NULL THEN "GT_CRYPTO_FAILURE"
     ELSE IF algorithm.parameter \notin {"absent", "null"} THEN "GT_INVALID_FORMAT"
     ELSE IF GT_EVPToHashChainID(Deref(evp_md)) < 0 THEN "GT_UNTRUSTED_SIGNATURE_ALGORITHM"
     ELSE IF tmp_res < 0 THEN "GT_CRYPTO_FAILURE"
     ELSE IF tmp_res = 0 THEN "GT_INVALID_SIGNATURE"
     ELSE "GT_OK"


\* GTTimestamp_verify, the syntactic check: its flag is or-ed into the info
SyntacticCheckStep(mem, timestamp, tmp_info) ==
  IF checkTimestampSyntax(mem, timestamp) # "GT_OK"
  THEN [tmp_info EXCEPT !.verification_errors = Or(@, GT_SYNTACTIC_CHECK_FAILURE)]
  ELSE tmp_info

\* the hash chain check skipped once an earlier check has failed
HashChainCheckStep_shortcircuit(mem, timestamp, tmp_info) ==
  IF tmp_info.verification_errors # GT_NO_FAILURES \/ checkHashChain(mem, timestamp) = "GT_OK"
  THEN [res |-> "GT_OK", info |-> tmp_info]
  ELSE [res |-> "GT_OK",
        info |-> [tmp_info EXCEPT !.verification_errors =
                    Or(@, GT_HASHCHAIN_VERIFICATION_FAILURE)]]

\* the hash chain check with GT_INVALID_FORMAT missing from the switch
HashChainCheckStep_abort(mem, timestamp, tmp_info) ==
  LET tmp_res == checkHashChain(mem, timestamp)
  IN IF tmp_res = "GT_OK" THEN [res |-> "GT_OK", info |-> tmp_info]
     ELSE IF tmp_res \in {"GT_UNTRUSTED_HASH_ALGORITHM", "GT_WRONG_SIGNED_DATA",
                          "GT_INVALID_AGGREGATION"}
     THEN [res |-> "GT_OK",
           info |-> [tmp_info EXCEPT !.verification_errors =
                       Or(@, GT_HASHCHAIN_VERIFICATION_FAILURE)]]
     ELSE [res |-> tmp_res, info |-> tmp_info]

\* GTTimestamp_verify, the hash chain check: res is "GT_OK" unless the code
\* is none of those the switch turns into the flag
HashChainCheckStep(mem, timestamp, tmp_info) ==
  LET Switch(tmp_res) ==
        IF tmp_res = "GT_OK" THEN [res |-> "GT_OK", info |-> tmp_info]
        ELSE IF tmp_res \in {"GT_INVALID_FORMAT", "GT_UNTRUSTED_HASH_ALGORITHM",
                             "GT_WRONG_SIGNED_DATA", "GT_INVALID_AGGREGATION"}
        THEN [res |-> "GT_OK",
              info |-> [tmp_info EXCEPT !.verification_errors =
                          Or(@, GT_HASHCHAIN_VERIFICATION_FAILURE)]]
        ELSE [res |-> tmp_res, info |-> tmp_info]
  IN Switch(checkHashChain(mem, timestamp))

\* the code the public key signature check of GTTimestamp_verify obtains
PublicKeySignatureResult(timestamp, certificate) ==
  IF certificate = NULL THEN "GT_INVALID_FORMAT"
  ELSE checkPublicKeySignature(timestamp, Deref(certificate))

\* the public key signature check left out
PublicKeySignatureCheckStep_skipped(timestamp, certificate, tmp_info) ==
  [res |-> "GT_OK", info |-> tmp_info]

\* GTTimestamp_verify, the public key signature check
PublicKeySignatureCheckStep(timestamp, certificate, tmp_info) ==
  IF Deref(timestamp.time_signature).pkSignature = NULL
  THEN [res |-> "GT_OK", info |-> tmp_info]
  ELSE LET Switch(tmp_res) ==
             IF tmp_res = "GT_OK" THEN [res |-> "GT_OK", info |-> tmp_info]
             ELSE IF tmp_res \in {"GT_INVALID_FORMAT", "GT_UNTRUSTED_HASH_ALGORITHM",
                                  "GT_UNTRUSTED_SIGNATURE_ALGORITHM",
                                  "GT_WRONG_SIGNED_DATA", "GT_INVALID_SIGNATURE"}
             THEN [res |-> "GT_OK",
                   info |-> [tmp_info EXCEPT !.verification_errors =
                               Or(@, GT_PUBLIC_KEY_SIGNATURE_FAILURE)]]
             ELSE [res |-> tmp_res, info |-> tmp_info]
       IN Switch(PublicKeySignatureResult(timestamp, certificate))

\* GTTimestamp_verify(timestamp, parse_data, &verification_info); timestamp is
\* NULL or points to a timestamp
GTTimestamp_verify(mem, timestamp, parse_data, sys) ==
  IF IncompleteTimestamp(timestamp) THEN [res |-> "GT_INVALID_ARGUMENT", info |-> NULL]
  ELSE LET ts == Deref(timestamp)
           Failed(res) == [res |-> res, info |-> NULL]
           Return(pki) ==
             IF pki.res # "GT_OK" THEN Failed(pki.res)
             ELSE [res |-> "GT_OK", info |-> Ptr(pki.info)]
           Signature(certificate, chain) ==
             IF chain.res # "GT_OK" THEN Failed(chain.res)
             ELSE Return(PublicKeySignatureCheckStep(ts, certificate, chain.info))
           Checks(tmp_info) ==
             Signature(IF HasFlag(tmp_info.verification_status,
                                  GT_PUBLIC_KEY_SIGNATURE_PRESENT)
                       THEN PKCS7_cert_from_signer_info(mem[ts.token], SignerInfoOf(mem, ts))
                       ELSE NULL,
                       HashChainCheckStep(mem, ts, SyntacticCheckStep(mem, ts, tmp_info)))
           Created(created) ==
             IF created.res # "GT_OK" THEN Failed(created.res)
             ELSE Checks(Deref(created.info))
       IN Created(createVerificationInfo(mem, ts, parse_data, sys))


(***************************************************************************)
(* Inputs. A timestamp is issued from a configuration: the fields named    *)
(* f_* are fixed before the gateway computes the digests, the published    *)
(* imprint and the signature; the fields named t_* alter the issued token  *)
(* afterwards. Default is a clean short-term timestamp.                    *)
(***************************************************************************)
Default ==
  [f_token_decodable |-> TRUE, f_p7_type |-> "signed", f_sd_version |-> 3,
   f_detached |-> FALSE, f_content_type |-> "TSTInfo", f_content_asn1 |-> "octet",
   f_tst_decodable |-> TRUE, f_tst_version |-> 1, f_mi_alg |-> GT_HASHALG_SHA256,
   f_mi_param |-> "absent",
   f_serial |-> "V_ASN1_INTEGER", f_gen_time |-> "valid", f_tst_ext |-> "none",
   f_signers |-> 1, f_si_version |-> 1, f_digest_param |-> "absent",
   f_attr_content_type |-> "TSTInfo", f_attr_digest_type |-> "octet",
   f_enc_alg |-> "gt_time_signature_alg", f_enc_param |-> "absent",
   f_ts_decodable |-> TRUE, f_location |-> "named", f_history |-> "ok",
   f_pub_id |-> 5, f_round |-> 2, f_alg_server |-> GT_HASHALG_SHA256,
   f_extended |-> FALSE, f_sig_alg |-> "sha256", f_sig_param |-> "absent",
   f_not_before |-> "valid", f_key_form |-> "ok",
   t_digest_alg |-> GT_HASHALG_SHA256, t_message_digest |-> FALSE,
   t_location |-> FALSE, t_history |-> FALSE, t_pub_id |-> FALSE,
   t_imprint_empty |-> FALSE, t_flip |-> 0, t_sig_key |-> "K1", t_sig_form |-> "ok",
   t_cert |-> "present"]

\* location chains: a plain one-step chain that reaches the hasher level, a
\* chain with a name tag in its first step, a well-formed chain that never
\* reaches the hasher level, and three malformed ones
NameTagSibling == <<0, 2, 71, 84>> \o Rep(0, 24)

LocationChain(kind) ==
  CASE kind = "plain" -> MkStep(1, 0, 0, Rep(17, 20), 255)
    [] kind = "named" -> MkStep(1, 1, GT_HASHALG_SHA224, NameTagSibling, 1)
                         \o MkStep(1, 0, 0, Rep(18, 20), 2)
                         \o MkStep(1, 0, 0, Rep(17, 20), 255)
    [] kind = "no_hasher" -> MkStep(1, 0, 0, Rep(17, 20), 5)
    [] kind = "decreasing" -> MkStep(1, 0, 0, Rep(18, 20), 7)
                              \o MkStep(1, 0, 0, Rep(17, 20), 3)
                              \o MkStep(1, 0, 0, Rep(19, 20), 255)
    [] kind = "bad_direction" -> MkStep(1, 2, 0, Rep(17, 20), 255)
    [] kind = "bad_sibling_alg" -> MkStep(1, 0, 9, Rep(17, 20), 255)
    [] OTHER -> Slice(MkStep(1, 0, 0, Rep(17, 20), 255), 0, 12)

\* the direction bits that lead from round idx to the root of the tree over
\* rounds 0 .. n-1, leaf first
RECURSIVE ShapeOf(_, _)
ShapeOf(n, idx) ==
  IF n < 2 THEN <<>>
  ELSE LET m == HighPow(n, 1)
       IN IF idx < m THEN Append(ShapeOf(m, idx), 1)
          ELSE Append(ShapeOf(n - m, idx - m), 0)

RECURSIVE StepsOfShape(_, _)
StepsOfShape(shape, i) ==
  IF i > Len(shape) THEN <<>>
  ELSE MkStep(1, shape[i], 1, Rep(40 + i, 32), 0) \o StepsOfShape(shape, i + 1)

\* history chains for round idx under publication pub_id: the proper one, one
\* with a step too many (no round has that shape) and a truncated one
HistoryChain(kind, pub_id, idx) ==
  LET chain == StepsOfShape(ShapeOf(pub_id + 1, idx), 1)
  IN CASE kind = "ok" -> chain
       [] kind = "no_round" -> chain \o StepsOfShape(<<1, 1, 1, 1, 1>>, 1)
       [] OTHER -> chain \o <<1, 0>>

\* the chain with the first byte of its first sibling digest changed
TamperSibling(chain) == [chain EXCEPT ![4] = (@ + 1) % 256]

\* the document the timestamps are taken over, and another one
Document == <<100, 111, 99>>

OtherDocument == <<100, 111, 100>>

\* the digest a client computes of document doc for a request with algorithm
\* alg (SHA-256 stands in for an algorithm the library does not know)
DocumentDigest(alg, doc) ==
  Hash(IF GT_isSupportedHashAlgorithm(alg) THEN alg ELSE GT_HASHALG_SHA256, doc)

MkTSTInfo(c) ==
  [version |-> c.f_tst_version, policy |-> "policy",
   messageImprint |-> [hashAlgorithm |-> [algorithm |-> c.f_mi_alg,
                                          parameter |-> c.f_mi_param],
                       hashedMessage |-> DocumentDigest(c.f_mi_alg, Document)],
   serialNumber |-> [type |-> c.f_serial],
   genTime |-> c.f_gen_time, extensions |-> c.f_tst_ext]

MkCert(c) ==
  [issuer_and_serial |-> IF c.t_cert = "other" THEN "CA#2" ELSE "CA#1",
   key |-> [id |-> "K1", form |-> c.f_key_form],
   notBefore |-> c.f_not_before]

\* the result of GT_hashChainCalculate*, the input itself for a malformed chain
ChainOutput(calc, input) == IF calc.res = "GT_OK" THEN calc.output ELSE input

\* the imprint of byte string imprint with bit (code - 1) flipped, counted
\* from bit 0 of the first byte; code 0 leaves it alone
FlipImprint(imprint, code) ==
  IF code = 0 \/ code > 8 * Len(imprint) THEN imprint
  ELSE [imprint EXCEPT ![((code - 1) \div 8) + 1] = FlipBit(@, (code - 1) % 8)]

\* the encoding of v, one the decoder rejects unless ok
DER(ok, v) == IF ok THEN Encoded(v) ELSE Undecodable(v)

\* the token the gateway issues over tst_info with the given chains, and what
\* the t_* fields of c make of it afterwards
IssueToken(c, tst_info, location, history) ==
  LET Token(auth_attr, issued) ==
        [type |-> c.f_p7_type,
         sign |->
           [version |-> c.f_sd_version,
            contents |->
              [type |-> c.f_content_type,
               other |-> IF c.f_detached THEN NULL
                         ELSE Ptr([type |-> c.f_content_asn1,
                                   octet_string |-> DER(c.f_tst_decodable, tst_info)])],
            signer_info |->
              [i \in 1..c.f_signers |->
                 [version |-> c.f_si_version, issuer_and_serial |-> "CA#1",
                  digest_alg |-> [algorithm |-> c.t_digest_alg,
                                  parameter |-> c.f_digest_param],
                  auth_attr |->
                    IF c.t_message_digest
                    THEN [auth_attr EXCEPT !.messageDigest.value[1] = (@ + 1) % 256]
                    ELSE auth_attr,
                  digest_enc_alg |-> [algorithm |-> c.f_enc_alg,
                                      parameter |-> c.f_enc_param],
                  enc_digest |->
                    DER(c.f_ts_decodable,
                        [location |-> IF c.t_location THEN TamperSibling(location)
                                      ELSE location,
                         history |-> IF c.t_history THEN TamperSibling(history)
                                     ELSE history,
                         publishedData |->
                           [publicationIdentifier |->
                              IF c.t_pub_id THEN UInt64Max + 1 ELSE c.f_pub_id,
                            publicationImprint |->
                              IF c.t_imprint_empty THEN <<>>
                              ELSE FlipImprint(issued.publicationImprint, c.t_flip)],
                         pkSignature |->
                           IF c.f_extended THEN NULL
                           ELSE Ptr([signatureAlgorithm |->
                                       [algorithm |-> c.f_sig_alg,
                                        parameter |-> c.f_sig_param],
                                     signatureValue |->
                                       [form |-> c.t_sig_form, key |-> c.t_sig_key,
                                        data |-> i2d_GTPublishedData(issued),
                                        md |-> c.f_sig_alg]]),
                         pubReference |-> <<>>])]],
            cert |-> IF c.f_extended \/ c.t_cert = "absent" THEN <<>>
                     ELSE <<MkCert(c)>>]]
      Publish(auth_attr, hist_output) ==
        After(hist_output,
              Token(auth_attr,
                    [publicationIdentifier |-> c.f_pub_id,
                     publicationImprint |->
                       GT_calculateDataImprint(hist_output, c.f_alg_server)]))
      History(auth_attr, loc_output) ==
        After(loc_output,
              Publish(auth_attr,
                      ChainOutput(GT_hashChainCalculateNoDepth(history, loc_output),
                                  loc_output)))
      Location(auth_attr, input) ==
        After(input,
              History(auth_attr,
                      ChainOutput(GT_hashChainCalculate(location, input), input)))
      Sign(auth_attr) ==
        Location(auth_attr,
                 GT_calculateDataImprint(i2d_PKCS7_ATTR_SIGN(auth_attr), GT_HASHALG_SHA256))
      Digest(digest) ==
        After(digest,
              Sign([contentType |-> c.f_attr_content_type,
                    messageDigest |-> [type |-> c.f_attr_digest_type, value |-> digest]]))
  IN Digest(Hash(GT_HASHALG_SHA256, i2d_GTTSTInfo(tst_info)))

MkToken(c) ==
  IssueToken(c, MkTSTInfo(c), LocationChain(c.f_location),
             HistoryChain(c.f_history, c.f_pub_id, c.f_round))

\* the bytes handed to GTTimestamp_DERDecode
TokenDER(c) == DER(c.f_token_decodable, MkToken(c))

\* the configuration with the given defects, each a <<field, value>> pair
RECURSIVE WithDefects(_, _, _)
WithDefects(c, defects, picks) ==
  IF picks = <<>> THEN c
  ELSE WithDefects([c EXCEPT ![defects[picks[1]][1]] = defects[picks[1]][2]],
                   defects, Tail(picks))

\* the strictly increasing index sequences of at most n elements of 1..m
RECURSIVE Picks(_, _, _)
Picks(lo, m, n) ==
  {<<>>} \cup (IF n = 0 THEN {}
               ELSE UNION {{<<i>> \o rest : rest \in Picks(i + 1, m, n - 1)} : i \in lo..m})

Configs(base, defects) ==
  {WithDefects(base, defects, picks) : picks \in Picks(1, Len(defects), MaxDefects)}


(***************************************************************************)
(* The state of a client of the library.                                   *)
(*   cfg    the configurations of the tokens the client was given          *)
(*   mem    the live PKCS7 tokens by address                               *)
(*   stamps the GTTimestamp objects the client holds                       *)
(*   out    the client's GTTimestamp* variable that receives the results:  *)
(*          0 (NULL) or an index into stamps                               *)
(*   call   the last call: operation, arguments, return code and outputs   *)
(*   sys    the build and the platform: sizeof(time_t)                     *)
(***************************************************************************)
VARIABLES cfg, mem, stamps, out, call, sys

vars == <<cfg, mem, stamps, out, call, sys>>

NoCall == [op |-> "none", arg |-> <<>>, res |-> "none", info |-> NULL, data |-> NULL]

\* the client's bookkeeping after a constructor returned r
Adopt(r) ==
  /\ mem' = r.mem
  /\ IF r.res = "GT_OK"
     THEN stamps' = Append(stamps, Deref(r.timestamp)) /\ out' = Len(stamps) + 1
     ELSE UNCHANGED <<stamps, out>>

\* GTTimestamp_DERDecode() of the bytes of token i
DERDecode(i) ==
  /\ i \in 1..Len(cfg)
  /\ Len(stamps) = i - 1
  /\ LET Returned(r) ==
           /\ Adopt(r)
           /\ call' = [NoCall EXCEPT !.op = "GTTimestamp_DERDecode", !.arg = <<i>>,
                                     !.res = r.res]
     IN Returned(GTTimestamp_DERDecode(mem, Ptr(TokenDER(cfg[i]))))
  /\ UNCHANGED <<cfg, sys>>

\* GTTimestamp_verify() of timestamp i
Verify(i, parse_data, malloc_ok) ==
  /\ i \in 1..Len(stamps)
  /\ LET Returned(r) ==
           call' = [NoCall EXCEPT !.op = "GTTimestamp_verify",
                                  !.arg = <<i, parse_data, malloc_ok>>,
                                  !.res = r.res, !.info = r.info]
     IN Returned(GTTimestamp_verify(mem, Ptr(stamps[i]), parse_data,
                                    [sizeof_time_t |-> sys.sizeof_time_t,
                                     malloc_ok |-> malloc_ok]))
  /\ UNCHANGED <<cfg, mem, stamps, out, sys>>

\* GTTimestamp_isExtended() of timestamp i
IsExtended(i) ==
  /\ i \in 1..Len(stamps)
  /\ call' = [NoCall EXCEPT !.op = "GTTimestamp_isExtended", !.arg = <<i>>,
                            !.res = GTTimestamp_isExtended(Ptr(stamps[i]))]
  /\ UNCHANGED <<cfg, mem, stamps, out, sys>>

(***************************************************************************)
(* SpecVerify: one token with up to MaxDefects defects is decoded and      *)
(* verified.                                                               *)
(***************************************************************************)
VerifyDefects ==
  << <<"f_sd_version", 2>>, <<"f_mi_alg", -1>>, <<"f_gen_time", "malformed">>,
     <<"f_location", "no_hasher">>, <<"f_location", "bad_direction">>,
     <<"f_location", "bad_sibling_alg">>, <<"f_location", "truncated">>,
     <<"f_history", "no_round">>, <<"f_history", "truncated">>,
     <<"f_extended", TRUE>>, <<"f_sig_alg", "unknown">>,
     <<"t_message_digest", TRUE>>, <<"t_pub_id", TRUE>>, <<"t_imprint_empty", TRUE>>,
     <<"t_flip", 9>>, <<"t_sig_key", "K2">>, <<"t_cert", "absent">> >>

InitVerify ==
  /\ cfg \in {<<c>> : c \in Configs(Default, VerifyDefects)}
  /\ mem = <<>>
  /\ stamps = <<>>
  /\ out = 0
  /\ call = NoCall
  /\ sys = [sizeof_time_t |-> 8]

NextVerify ==
  \/ DERDecode(1)
  \/ \E parse_data \in {0, 1}, malloc_ok \in BOOLEAN : Verify(1, parse_data, malloc_ok)
  \/ IsExtended(1)

SpecVerify == InitVerify /\ [][NextVerify]_vars


(***************************************************************************)
(* Properties of GTTimestamp_verify, checked under SpecVerify.             *)
(***************************************************************************)
VerifyReturned == call.op = "GTTimestamp_verify" /\ call.res = "GT_OK"

\* the sys argument of the last GTTimestamp_verify call
CallSys == [sizeof_time_t |-> sys.sizeof_time_t, malloc_ok |-> call.arg[3]]

\* the certificate GTTimestamp_verify looks up for timestamp ts
SignerCertificate(ts) == PKCS7_cert_from_signer_info(mem[ts.token], SignerInfoOf(mem, ts))

SyntaxFailed(ts) == checkTimestampSyntax(mem, ts) # "GT_OK"

HashChainFailed(ts) == checkHashChain(mem, ts) # "GT_OK"

SignatureFailed(ts) ==
  /\ Deref(ts.time_signature).pkSignature # NULL
  /\ PublicKeySignatureResult(ts, SignerCertificate(ts)) # "GT_OK"

\* createVerificationInfo already set the syntactic flag for timestamp ts
FlaggedOnCreation(ts) ==
  LET created == createVerificationInfo(mem, ts, call.arg[2], CallSys)
  IN /\ created.res = "GT_OK"
     /\ HasFlag(Deref(created.info).verification_errors, GT_SYNTACTIC_CHECK_FAILURE)

\* the bitmap with exactly the given flags
Flags(syntactic, hashchain, signature) ==
  (IF syntactic THEN GT_SYNTACTIC_CHECK_FAILURE ELSE 0)
  + (IF hashchain THEN GT_HASHCHAIN_VERIFICATION_FAILURE ELSE 0)
  + (IF signature THEN GT_PUBLIC_KEY_SIGNATURE_FAILURE ELSE 0)

\* C1 as stated: whenever GTTimestamp_verify returns GT_OK, verification_errors
\* is exactly the union of the flags of the three sub-checks that fail
\* (checkTimestampSyntax, checkHashChain, checkPublicKeySignature).
C1_UnionOfThreeChecks ==
  VerifyReturned =>
    LET ts == stamps[call.arg[1]]
    IN Deref(call.info).verification_errors
         = Flags(SyntaxFailed(ts), HashChainFailed(ts), SignatureFailed(ts))

\* C1 amended: whenever GTTimestamp_verify returns GT_OK, every sub-check has
\* contributed its flag whatever the others returned: the hash chain flag is
\* set iff checkHashChain fails, the signature flag iff pkSignature is present
\* and its check fails, and the syntactic flag iff checkTimestampSyntax fails
\* or createVerificationInfo had already set it (history identifier or
\* location not recoverable, untrusted messageImprint algorithm).
C1_NoShortCircuit ==
  VerifyReturned =>
    LET ts == stamps[call.arg[1]]
    IN Deref(call.info).verification_errors
         = Flags(SyntaxFailed(ts) \/ FlaggedOnCreation(ts), HashChainFailed(ts),
                 SignatureFailed(ts))

\* all three sub-checks fail on one call and all three flags are reported
C1_Witness ==
  /\ VerifyReturned
  /\ SyntaxFailed(stamps[1]) /\ HashChainFailed(stamps[1]) /\ SignatureFailed(stamps[1])
  /\ Deref(call.info).verification_errors = Flags(TRUE, TRUE, TRUE)

\* the other combinations of the three flags, each reported by some call
C1_Reported(syntactic, hashchain, signature) ==
  VerifyReturned
  /\ Deref(call.info).verification_errors = Flags(syntactic, hashchain, signature)

C1_NotReported_S == ~C1_Reported(TRUE, FALSE, FALSE)

C1_NotReported_H == ~C1_Reported(FALSE, TRUE, FALSE)

C1_NotReported_P == ~C1_Reported(FALSE, FALSE, TRUE)

C1_NotReported_SH == ~C1_Reported(TRUE, TRUE, FALSE)

C1_NotReported_SP == ~C1_Reported(TRUE, FALSE, TRUE)

C1_NotReported_HP == ~C1_Reported(FALSE, TRUE, TRUE)

C1_NotReported_None == ~C1_Reported(FALSE, FALSE, FALSE)

\* C2 as stated: GTTimestamp_verify of a decoded timestamp returns a non-OK
\* code, and no VerificationInfo, only for hard errors (out of memory, a
\* failure inside the crypto library); every defect of the token itself gives
\* GT_OK and an info.
C2_OnlyHardErrorsAbort ==
  call.op = "GTTimestamp_verify" =>
    \/ call.res = "GT_OK" /\ call.info # NULL
    \/ call.res = "GT_OUT_OF_MEMORY" /\ ~call.arg[3]
    \/ call.res = "GT_CRYPTO_FAILURE"

\* the timestamp the last call was made on
CallStamp == stamps[call.arg[1]]

PkSignatureAbsent(ts) == Deref(ts.time_signature).pkSignature = NULL

\* C6: pkSignature is absent iff GTTimestamp_isExtended answers GT_EXTENDED
\* (GT_NOT_EXTENDED otherwise), and in every VerificationInfo that
\* GTTimestamp_verify returns: pkSignature absent iff the
\* GT_PUBLIC_KEY_SIGNATURE_PRESENT bit is clear iff publication_string is set
\* and public_key_fingerprint NULL; pkSignature present iff the bit is set iff
\* public_key_fingerprint is set and publication_string NULL.
C6_ExtendedIffNoPkSignature ==
  /\ call.op = "GTTimestamp_isExtended" =>
       call.res = IF PkSignatureAbsent(CallStamp) THEN "GT_EXTENDED" ELSE "GT_NOT_EXTENDED"
  /\ VerifyReturned =>
       LET info == Deref(call.info)
           absent == PkSignatureAbsent(CallStamp)
           fingerprint == info.implicit_data.public_key_fingerprint
           publication == info.implicit_data.publication_string
       IN /\ absent <=> GTTimestamp_isExtended(Ptr(CallStamp)) = "GT_EXTENDED"
          /\ ~absent <=> GTTimestamp_isExtended(Ptr(CallStamp)) = "GT_NOT_EXTENDED"
          /\ absent <=> ~HasFlag(info.verification_status, GT_PUBLIC_KEY_SIGNATURE_PRESENT)
          /\ absent <=> (publication # NULL /\ fingerprint = NULL)
          /\ ~absent <=> (fingerprint # NULL /\ publication = NULL)

\* an extended timestamp was verified and its info carries the publication string
C6_Witness ==
  /\ VerifyReturned
  /\ PkSignatureAbsent(CallStamp)
  /\ Deref(call.info).implicit_data.publication_string # NULL
  /\ Deref(call.info).implicit_data.public_key_fingerprint = NULL

\* the location chain of timestamp ts is one extractLocation() rejects
BadLocationChain(ts) ==
  extractLocation(Deref(ts.time_signature).location).res = "GT_INVALID_LINKING_INFO"

\* the history chain of timestamp ts has no shape, or a shape that maps to no
\* identifier under the publication identifier
BadHistoryChain(ts) ==
  LET time_signature == Deref(ts.time_signature)
      shape == GT_shape(time_signature.history)
  IN \/ shape.res # "GT_OK"
     \/ GT_findHistoryIdentifier(time_signature.publishedData.publicationIdentifier,
                                 shape.shape).res # "GT_OK"

\* the token differs from the clean one in its two chains only (short-term or
\* extended)
OnlyChainsDiffer(c) ==
  [c EXCEPT !.f_location = Default.f_location, !.f_history = Default.f_history,
            !.f_extended = Default.f_extended] = Default

FlipBytes == 2

FlipBases ==
  {[Default EXCEPT !.f_extended = e, !.f_alg_server = a, !.f_location = l] :
     e \in BOOLEAN, a \in {GT_HASHALG_SHA1, GT_HASHALG_SHA256}, l \in {"plain", "named"}}

InitFlip ==
  /\ cfg \in {<<c>> : c \in FlipBases}
  /\ mem = <<>>
  /\ stamps = <<>>
  /\ out = 0
  /\ call = NoCall
  /\ sys = [sizeof_time_t |-> 8]

\* GTTimestamp_DERDecode() of the bytes of token 1 with bit (code - 1) of the
\* publicationImprint flipped
DecodeFlipped(code) ==
  /\ Len(cfg) = 1 /\ Len(stamps) = 1
  /\ LET flipped == [cfg[1] EXCEPT !.t_flip = code]
         Returned(r) ==
           /\ cfg' = Append(cfg, flipped)
           /\ Adopt(r)
           /\ call' = [NoCall EXCEPT !.op = "GTTimestamp_DERDecode", !.arg = <<2>>,
                                     !.res = r.res]
     IN Returned(GTTimestamp_DERDecode(mem, Ptr(TokenDER(flipped))))
  /\ UNCHANGED sys

NextFlip ==
  \/ DERDecode(1)
  \/ \E code \in 1..(8 * FlipBytes) : DecodeFlipped(code)
  \/ \E i \in {1, 2}, parse_data \in {0, 1}, malloc_ok \in BOOLEAN :
       Verify(i, parse_data, malloc_ok)

SpecFlip == InitFlip /\ [][NextFlip]_vars

\* verification_errors of timestamp i under the arguments of the last call
ErrorsOf(i) ==
  LET r == GTTimestamp_verify(mem, Ptr(stamps[i]), call.arg[2], CallSys)
  IN IF r.res = "GT_OK" THEN Deref(r.info).verification_errors ELSE -1

\* the last call verified the flipped copy of a timestamp that itself verifies
\* without errors
FlippedVerified ==
  /\ call.op = "GTTimestamp_verify" /\ call.arg[1] = 2 /\ call.arg[3]
  /\ ErrorsOf(1) = GT_NO_FAILURES

\* the flipped bit changed the algorithm id of the imprint to an unknown one
\* or to one of another digest size
FlippedToOtherSize ==
  LET before == Deref(stamps[1].time_signature).publishedData.publicationImprint[1]
      after == Deref(stamps[2].time_signature).publishedData.publicationImprint[1]
  IN after # before
     /\ (~GT_isSupportedHashAlgorithm(after) \/ GT_getHashSize(after) # GT_getHashSize(before))

\* C3 as stated: a single flipped bit of publicationImprint makes
\* GTTimestamp_verify return GT_OK with GT_HASHCHAIN_VERIFICATION_FAILURE set
\* and the two other error flags still clear.
C3_OnlyHashChainFlag ==
  FlippedVerified =>
    /\ call.res = "GT_OK"
    /\ Deref(call.info).verification_errors = Flags(FALSE, TRUE, FALSE)

\* C3 amended: a single flipped bit of publicationImprint makes
\* GTTimestamp_verify return GT_OK with GT_HASHCHAIN_VERIFICATION_FAILURE set;
\* GT_PUBLIC_KEY_SIGNATURE_FAILURE is set as well iff the timestamp is
\* short-term (pkSignature signs the published data), and
\* GT_SYNTACTIC_CHECK_FAILURE iff the bit changed the algorithm id to an
\* unknown one or one of another digest size.
C3_FlipIsDetected ==
  FlippedVerified =>
    /\ call.res = "GT_OK"
    /\ Deref(call.info).verification_errors
         = Flags(FlippedToOtherSize, TRUE, ~PkSignatureAbsent(stamps[2]))

\* the flipped copy of an extended timestamp was verified, the bit being one
\* of the digest, and only the hash chain flag is set
C3_Witness ==
  /\ FlippedVerified /\ call.res = "GT_OK"
  /\ PkSignatureAbsent(stamps[2])
  /\ cfg[2].t_flip > 8
  /\ Deref(call.info).verification_errors = Flags(FALSE, TRUE, FALSE)


(***************************************************************************)
(* Spec: a client receives one token, as encoded timestamp or inside a     *)
(* timestamping response, and extends the timestamps it holds with the     *)
(* responses of the extension service.                                     *)
(***************************************************************************)
\* the client holds at most MaxStamps timestamps
MaxStamps == 2

StructuralDefects ==
  << <<"f_token_decodable", FALSE>>, <<"f_p7_type", "other">>, <<"f_detached", TRUE>>,
     <<"f_content_type", "other">>, <<"f_content_asn1", "other">>,
     <<"f_tst_decodable", FALSE>>, <<"f_signers", 0>>, <<"f_signers", 2>>,
     <<"f_enc_alg", "other">>, <<"f_enc_param", "other">>, <<"f_enc_param", "null">>,
     <<"f_ts_decodable", FALSE>>, <<"f_extended", TRUE>>, <<"f_history", "no_round">>,
     <<"f_history", "truncated">> >>

\* the PKIStatusInfo values of the responses
Statuses ==
  {[status |-> "granted", failInfo |-> "none"],
   [status |-> "rejection", failInfo |-> "extendLater"]}

\* a timestamping response: decodable or not, its status, with or without
\* the token
TimestampResponses ==
  [decodable : BOOLEAN, status : Statuses, token : BOOLEAN]

\* an extension response: its status, with or without the cert token, whose
\* version, extensions and round (that of the timestamp or the next one)
\* vary; and one response that does not decode
GoodExtensionResponse ==
  [decodable |-> TRUE, status |-> [status |-> "granted", failInfo |-> "none"],
   token |-> TRUE, version |-> 1, extensions |-> "none", same_round |-> TRUE]

ExtensionResponses ==
  {[GoodExtensionResponse EXCEPT !.decodable = FALSE]}
  \cup {[GoodExtensionResponse EXCEPT !.status = s, !.token = FALSE] : s \in Statuses}
  \cup {[GoodExtensionResponse EXCEPT !.status = s, !.version = v, !.extensions = e,
                                      !.same_round = sr] :
          s \in Statuses, v \in {1, 2}, e \in {"none", "critical_unknown"},
          sr \in BOOLEAN}

\* the calls of GTTimestamp_createExtendedTimestamp(): every response with
\* memory available, the good response with each allocation failing
ExtensionCalls ==
  {<<r, "none">> : r \in ExtensionResponses}
  \cup {<<GoodExtensionResponse, fault>> :
          fault \in {"GTTimestamp_new", "PKCS7_dup", "ASN1_item_pack"}}

\* the publication the extension service extends to, and the round the
\* timestamps are registered in
ExtendedPubId == Default.f_pub_id + 1

\* the bytes of the timestamping response r for token c
TimestampResponseDER(c, r) ==
  LET resp == [status |-> r.status,
               timeStampToken |-> IF r.token THEN Ptr(MkToken(c)) ELSE NULL]
  IN IF r.decodable /\ (r.token => c.f_token_decodable) THEN Encoded(resp)
     ELSE Undecodable(resp)

\* the cert token the extension service issues for timestamp ts: the history
\* chain from its round to publication ExtendedPubId and the published data
MkCertToken(tokens, ts, r) ==
  LET signer_info == SignerInfoOf(tokens, ts)
      time_signature == Deref(ts.time_signature)
      input == GT_calculateDataImprint(i2d_PKCS7_ATTR_SIGN(signer_info.auth_attr),
                                       signer_info.digest_alg.algorithm)
      history == HistoryChain("ok", ExtendedPubId,
                              IF r.same_round THEN Default.f_round ELSE Default.f_round + 1)
      loc_output == ChainOutput(GT_hashChainCalculate(time_signature.location, input), input)
      hist_output == ChainOutput(GT_hashChainCalculateNoDepth(history, loc_output),
                                 loc_output)
  IN After(input, After(loc_output, After(hist_output,
     [version |-> r.version, history |-> history,
      publishedData |-> [publicationIdentifier |-> ExtendedPubId,
                         publicationImprint |->
                           GT_calculateDataImprint(hist_output, GT_HASHALG_SHA256)],
      pubReference |-> <<1>>, extensions |-> r.extensions])))

\* the bytes of the extension response r for timestamp ts
ExtensionResponseDER(tokens, ts, r) ==
  LET resp == [status |-> r.status,
               certToken |-> IF r.token THEN Ptr(MkCertToken(tokens, ts, r)) ELSE NULL]
  IN IF r.decodable THEN Encoded(resp) ELSE Undecodable(resp)

\* GTTimestamp_createTimestamp() of response r carrying token 1
CreateTimestamp(r) ==
  /\ Len(stamps) = 0
  /\ LET Returned(created) ==
           /\ Adopt(created)
           /\ call' = [NoCall EXCEPT !.op = "GTTimestamp_createTimestamp",
                                     !.arg = <<1, r>>, !.res = created.res]
     IN Returned(GTTimestamp_createTimestamp(mem, Ptr(TimestampResponseDER(cfg[1], r))))
  /\ UNCHANGED <<cfg, sys>>

\* GTTimestamp_prepareExtensionRequest() of timestamp i
PrepareExtensionRequest(i) ==
  /\ i \in 1..Len(stamps)
  /\ LET Returned(r) ==
           call' = [NoCall EXCEPT !.op = "GTTimestamp_prepareExtensionRequest",
                                  !.arg = <<i>>, !.res = r.res, !.data = r.request_data]
     IN Returned(GTTimestamp_prepareExtensionRequest(Ptr(stamps[i])))
  /\ UNCHANGED <<cfg, mem, stamps, out, sys>>

\* GTTimestamp_createExtendedTimestamp() of timestamp i and response r; fault
\* names the call that fails for lack of memory, if any
CreateExtendedTimestamp(i, r, fault) ==
  /\ i \in 1..Len(stamps)
  /\ Len(stamps) < MaxStamps
  /\ LET Returned(extended) ==
           /\ Adopt(extended)
           /\ call' = [NoCall EXCEPT !.op = "GTTimestamp_createExtendedTimestamp",
                                     !.arg = <<i, r, fault>>, !.res = extended.res]
     IN Returned(GTTimestamp_createExtendedTimestamp(
                   mem, Ptr(stamps[i]), Ptr(ExtensionResponseDER(mem, stamps[i], r)),
                   fault))
  /\ UNCHANGED <<cfg, sys>>

Init ==
  /\ cfg \in {<<c>> : c \in Configs(Default, StructuralDefects)}
  /\ mem = <<>>
  /\ stamps = <<>>
  /\ out = 0
  /\ call = NoCall
  /\ sys = [sizeof_time_t |-> 8]

Next ==
  \/ DERDecode(1)
  \/ \E r \in TimestampResponses : CreateTimestamp(r)
  \/ \E i \in 1..MaxStamps : PrepareExtensionRequest(i)
  \/ \E i \in 1..MaxStamps, c \in ExtensionCalls : CreateExtendedTimestamp(i, c[1], c[2])

Spec == Init /\ [][Next]_vars


(***************************************************************************)
(* Properties of the constructors and of extension, checked under Spec.    *)
(***************************************************************************)
ExtensionReturned == call.op = "GTTimestamp_createExtendedTimestamp"

\* C4: GTTimestamp_createExtendedTimestamp is transactional and leaves its
\* input alone: when it returns a non-OK code the out parameter is not
\* written and neither the timestamps nor the tokens change; on every path
\* every timestamp held before the call, the input included, keeps its token
\* (enc_digest and certificate bag) and its cached tst_info and
\* time_signature; on success the result is a new timestamp with a token of
\* its own.
C4_ExtensionIsTransactional ==
  [][call'.op = "GTTimestamp_createExtendedTimestamp" =>
       /\ call'.res # "GT_OK" => (out' = out /\ stamps' = stamps /\ mem' = mem)
       /\ \A j \in 1..Len(stamps) :
            /\ stamps'[j] = stamps[j]
            /\ mem'[stamps[j].token] = mem[stamps[j].token]
       /\ call'.res = "GT_OK" =>
            /\ out' = Len(stamps) + 1
            /\ Len(stamps') = Len(stamps) + 1
            /\ stamps'[out'].token \notin DOMAIN mem]_vars

\* a short-term timestamp was extended: the result has no pkSignature and no
\* certificates, the input still has both
C4_Witness ==
  /\ ExtensionReturned /\ call.res = "GT_OK"
  /\ out = 2 /\ call.arg[1] = 1
  /\ stamps[2].token # stamps[1].token
  /\ PkSignatureAbsent(stamps[2]) /\ ~PkSignatureAbsent(stamps[1])
  /\ mem[stamps[2].token].sign.cert = <<>> /\ mem[stamps[1].token].sign.cert # <<>>

\* the timestamp invariant: all four fields set, the token SignedData with
\* attached TSTInfo content and one signer info of the time signature
\* algorithm, the caches being the decode of what the token holds
TimestampInvariant(ts) ==
  /\ ts.token \in DOMAIN mem
  /\ ts.tst_info # NULL /\ ts.signer_info # 0 /\ ts.time_signature # NULL
  /\ LET token == mem[ts.token]
     IN /\ token.type = "signed"
        /\ token.sign.contents.other # NULL
        /\ token.sign.contents.type = "TSTInfo"
        /\ Len(token.sign.signer_info) = 1
        /\ token.sign.signer_info[1].digest_enc_alg.algorithm = "gt_time_signature_alg"
        /\ token.sign.signer_info[1].digest_enc_alg.parameter \in {"absent", "null"}
        /\ ts.tst_info = d2i(Deref(token.sign.contents.other).octet_string)
        /\ ts.time_signature = d2i(token.sign.signer_info[1].enc_digest)

\* the token of configuration c meets the structural conditions
StructurallySound(c) ==
  /\ c.f_token_decodable /\ c.f_p7_type = "signed" /\ ~c.f_detached
  /\ c.f_content_type = "TSTInfo" /\ c.f_content_asn1 = "octet" /\ c.f_tst_decodable
  /\ c.f_signers = 1
  /\ c.f_enc_alg = "gt_time_signature_alg" /\ c.f_enc_param \in {"absent", "null"}
  /\ c.f_ts_decodable

\* the last call handed token 1 to a constructor
TokenHandedIn ==
  \/ call.op = "GTTimestamp_DERDecode"
  \/ /\ call.op = "GTTimestamp_createTimestamp"
     /\ call.arg[2].decodable /\ call.arg[2].token
     /\ call.arg[2].status.status = "granted"

\* C5: every timestamp a constructor returned satisfies the timestamp
\* invariant, and a token that violates a structural condition is rejected
\* with GT_INVALID_FORMAT, no timestamp being returned and no token kept.
C5_TimestampInvariant ==
  /\ \A i \in 1..Len(stamps) : TimestampInvariant(stamps[i])
  /\ (TokenHandedIn /\ ~StructurallySound(cfg[1])) =>
       /\ call.res = "GT_INVALID_FORMAT"
       /\ stamps = <<>> /\ out = 0 /\ DOMAIN mem = {}

\* the extended timestamp's caches are those of the spliced token, and a
\* token with two signer infos was rejected before
C5_Witness ==
  /\ ExtensionReturned /\ call.res = "GT_OK"
  /\ TimestampInvariant(stamps[out])
  /\ Deref(stamps[out].time_signature).pubReference = <<1>>
  /\ Deref(stamps[out].time_signature) # Deref(stamps[call.arg[1]].time_signature)

CallResponse == call.arg[2]

\* its bytes decode: a timestamping response that carries a token decodes
\* only if the token does
ResponseDecodes ==
  /\ CallResponse.decodable
  /\ (call.op = "GTTimestamp_createTimestamp" /\ CallResponse.token)
       => cfg[1].f_token_decodable

\* C9: the constructors check in the order decode, status, token presence,
\* then for extension version, critical extensions, consistency: the first
\* failing step gives the return code. A response that does not decode is
\* GT_INVALID_FORMAT; a refused status is its mapped error even without
\* token; a granted status without token is GT_INVALID_FORMAT; a cert token
\* of version 2 or with an unknown critical extension is
\* GT_UNSUPPORTED_FORMAT whatever the consistency check would say; only then
\* an extended input is GT_ALREADY_EXTENDED and a cert token of another round
\* GT_CANNOT_EXTEND.
C9_CheckOrder ==
  /\ call.op \in {"GTTimestamp_createTimestamp", "GTTimestamp_createExtendedTimestamp"} =>
       IF ~ResponseDecodes THEN call.res = "GT_INVALID_FORMAT"
       ELSE IF CallResponse.status.status # "granted"
       THEN call.res = "GT_NONSTD_EXTEND_LATER"
       ELSE ~CallResponse.token => call.res = "GT_INVALID_FORMAT"
  /\ (ExtensionReturned /\ CallResponse.decodable /\ CallResponse.token
      /\ CallResponse.status.status = "granted") =>
       IF CallResponse.version # 1 THEN call.res = "GT_UNSUPPORTED_FORMAT"
       ELSE IF CallResponse.extensions = "critical_unknown"
       THEN call.res = "GT_UNSUPPORTED_FORMAT"
       ELSE IF PkSignatureAbsent(CallStamp) THEN call.res = "GT_ALREADY_EXTENDED"
       ELSE IF BadHistoryChain(CallStamp) \/ ~CallResponse.same_round
       THEN call.res = "GT_CANNOT_EXTEND"
       ELSE call.arg[3] = "none" => call.res = "GT_OK"

\* a refused extension response without cert token gave the mapped error,
\* the input being an extended timestamp
C9_Witness ==
  /\ ExtensionReturned
  /\ CallResponse.decodable /\ ~CallResponse.token
  /\ CallResponse.status.status = "rejection"
  /\ PkSignatureAbsent(CallStamp)
  /\ call.res = "GT_NONSTD_EXTEND_LATER"


(***************************************************************************)
(* SpecOrder: two timestamps of given publications and rounds are decoded  *)
(* and compared, on a build with a 32-bit or a 64-bit time_t.              *)
(***************************************************************************)
\* <<publication identifier, round>> of the timestamps compared
OrderPoints ==
  {<<1, 0>>, <<1, 1>>, <<5, 2>>, <<5, 5>>, <<UInt64Max, 2>>, <<UInt64Max, UInt64Max - 1>>}

OrderConfigs ==
  {[Default EXCEPT !.f_pub_id = pt[1], !.f_round = pt[2]] : pt \in OrderPoints}
  \cup {[Default EXCEPT !.f_history = "no_round"], [Default EXCEPT !.t_pub_id = TRUE]}

InitOrder ==
  /\ cfg \in {<<a, b>> : a \in OrderConfigs, b \in OrderConfigs}
  /\ mem = <<>>
  /\ stamps = <<>>
  /\ out = 0
  /\ call = NoCall
  /\ sys \in {[sizeof_time_t |-> n] : n \in {4, 8}}

\* GTTimestamp_isEarlierThan() of timestamps i and j
IsEarlierThan(i, j) ==
  /\ i \in 1..Len(stamps) /\ j \in 1..Len(stamps)
  /\ call' = [NoCall EXCEPT !.op = "GTTimestamp_isEarlierThan", !.arg = <<i, j>>,
                            !.res = GTTimestamp_isEarlierThan(Ptr(stamps[i]),
                                                              Ptr(stamps[j]))]
  /\ UNCHANGED <<cfg, mem, stamps, out, sys>>

NextOrder ==
  \/ \E i \in {1, 2} : DERDecode(i)
  \/ \E i \in {1, 2}, j \in {1, 2} : IsEarlierThan(i, j)

SpecOrder == InitOrder /\ [][NextOrder]_vars

Compared == call.op = "GTTimestamp_isEarlierThan"

\* registered_time of timestamp i as GTTimestamp_verify reports it on this build
RegisteredTime(i) ==
  Deref(GTTimestamp_verify(mem, Ptr(stamps[i]), 0,
                           [sizeof_time_t |-> sys.sizeof_time_t, malloc_ok |-> TRUE]).info
       ).implicit_data.registered_time

\* the round timestamp i was registered in is reported as its registered_time
TimeReported(i) == RegisteredTime(i) = cfg[i].f_round

\* C8 as stated: when both history identifiers are recoverable,
\* GTTimestamp_isEarlierThan(a, b) is GT_EARLIER iff registered_time(a) <
\* registered_time(b) as GTTimestamp_verify reports them; when one is not, the
\* result is an error code.
C8_OrderOfRegisteredTime ==
  Compared =>
    IF BadHistoryChain(stamps[call.arg[1]]) \/ BadHistoryChain(stamps[call.arg[2]])
    THEN call.res \notin {"GT_EARLIER", "GT_NOT_EARLIER"}
    ELSE call.res = IF RegisteredTime(call.arg[1]) < RegisteredTime(call.arg[2])
                    THEN "GT_EARLIER" ELSE "GT_NOT_EARLIER"

\* C8 amended: GTTimestamp_isEarlierThan(a, b) is GT_EARLIER iff the round of
\* a, as unsigned 64-bit history identifier, is below that of b, and
\* GT_NOT_EARLIER otherwise; so it is never GT_EARLIER both ways nor for a
\* timestamp and itself, and it agrees with the order of registered_time
\* whenever GTTimestamp_verify reports both rounds as registered_time (the
\* identifier is below 2^63 and fits time_t). When GT_shape or
\* GT_findHistoryIdentifier fails for either timestamp the result is an
\* error code.
C8_OrderOfHistoryIdentifier ==
  Compared =>
    LET a == call.arg[1]
        b == call.arg[2]
    IN IF BadHistoryChain(stamps[a]) \/ BadHistoryChain(stamps[b])
       THEN call.res \notin {"GT_EARLIER", "GT_NOT_EARLIER"}
       ELSE /\ call.res = IF cfg[a].f_round < cfg[b].f_round
                          THEN "GT_EARLIER" ELSE "GT_NOT_EARLIER"
            /\ call.res = "GT_EARLIER" =>
                 GTTimestamp_isEarlierThan(Ptr(stamps[b]), Ptr(stamps[a])) = "GT_NOT_EARLIER"
            /\ a = b => call.res = "GT_NOT_EARLIER"
            /\ (TimeReported(a) /\ TimeReported(b)) =>
                 (call.res = "GT_EARLIER" <=> RegisteredTime(a) < RegisteredTime(b))

\* two timestamps of different publications whose registered times are both
\* reported were compared, the first being the earlier
C8_Witness ==
  /\ Compared /\ call.arg = <<1, 2>> /\ call.res = "GT_EARLIER"
  /\ cfg[1].f_pub_id # cfg[2].f_pub_id
  /\ TimeReported(1) /\ TimeReported(2)
  /\ RegisteredTime(1) < RegisteredTime(2)


(***************************************************************************)
(* GTTimestamp_checkDocumentHash.                                          *)
(***************************************************************************)
\* GT_fixHashAlgorithm(): the algorithm id a closed data hash carries is one
\* of the GT_HASHALG_* ids and is kept
GT_fixHashAlgorithm(hash_id) == hash_id

\* the digest compared before the algorithm
GTTimestamp_checkDocumentHash_digestfirst(timestamp, data_hash) ==
  IF data_hash = NULL THEN "GT_INVALID_ARGUMENT"
  ELSE LET dh == Deref(data_hash)
           message_imprint == Deref(timestamp.tst_info).messageImprint
       IN IF dh.digest_length = 0 \/ dh.digest = NULL \/ dh.context # NULL
          THEN "GT_INVALID_ARGUMENT"
          ELSE IF message_imprint.hashAlgorithm.algorithm < 0
          THEN "GT_UNTRUSTED_HASH_ALGORITHM"
          ELSE IF message_imprint.hashAlgorithm.parameter \notin {"absent", "null"}
          THEN "GT_UNTRUSTED_HASH_ALGORITHM"
          ELSE IF message_imprint.hashedMessage # Deref(dh.digest)
          THEN "GT_WRONG_DOCUMENT"
          ELSE IF message_imprint.hashAlgorithm.algorithm
                    # GT_fixHashAlgorithm(dh.algorithm)
          THEN "GT_DIFFERENT_HASH_ALGORITHMS"
          ELSE "GT_OK"

\* GTTimestamp_checkDocumentHash(timestamp, data_hash); data_hash is NULL or
\* points to [algorithm, digest (NULL or a pointer to the bytes),
\* digest_length, context (NULL once the computation is closed)]
GTTimestamp_checkDocumentHash(timestamp, data_hash) ==
  IF data_hash = NULL THEN "GT_INVALID_ARGUMENT"
  ELSE LET dh == Deref(data_hash)
           message_imprint == Deref(timestamp.tst_info).messageImprint
           hash_algorithm == message_imprint.hashAlgorithm.algorithm
       IN IF dh.digest_length = 0 \/ dh.digest = NULL \/ dh.context # NULL
          THEN "GT_INVALID_ARGUMENT"
          ELSE IF hash_algorithm < 0 THEN "GT_UNTRUSTED_HASH_ALGORITHM"
          ELSE IF message_imprint.hashAlgorithm.parameter \notin {"absent", "null"}
          THEN "GT_UNTRUSTED_HASH_ALGORITHM"
          ELSE IF hash_algorithm # GT_fixHashAlgorithm(dh.algorithm)
          THEN "GT_DIFFERENT_HASH_ALGORITHMS"
          ELSE IF Len(message_imprint.hashedMessage) # dh.digest_length
                  \/ Slice(message_imprint.hashedMessage, 0, dh.digest_length)
                       # Slice(Deref(dh.digest), 0, dh.digest_length)
          THEN "GT_WRONG_DOCUMENT"
          ELSE "GT_OK"

(***************************************************************************)
(* SpecDocument: a timestamp over Document, its messageImprint of a        *)
(* trusted or an untrusted algorithm with or without parameters, is        *)
(* decoded and compared with data hashes.                                  *)
(***************************************************************************)
DocumentConfigs ==
  {[Default EXCEPT !.f_mi_alg = a, !.f_mi_param = p] :
     a \in {GT_HASHALG_SHA1, GT_HASHALG_SHA256, GT_HASHALG_RIPEMD160, -1},
     p \in {"absent", "null", "other"}}

\* a closed data hash of the given digest
ClosedHash(alg, digest) ==
  [algorithm |-> alg, digest |-> Ptr(digest), digest_length |-> Len(digest),
   context |-> NULL]

DocumentAlgorithms == {GT_HASHALG_SHA1, GT_HASHALG_SHA256, GT_HASHALG_RIPEMD160}

\* the data hashes handed in: the digests of the two documents under three
\* algorithms, each labelled with each of the algorithms, and also cut short
\* by a byte, changed in its last byte, with its computation still open,
\* without digest and empty
DataHashes ==
  UNION {LET digest == Hash(a, doc)
             closed == ClosedHash(a, digest)
         IN {ClosedHash(b, digest) : b \in DocumentAlgorithms}
            \cup {ClosedHash(a, SubSeq(digest, 1, Len(digest) - 1)),
                  ClosedHash(a, [digest EXCEPT ![Len(digest)] = (@ + 1) % 256]),
                  [closed EXCEPT !.context = Ptr("open")],
                  [closed EXCEPT !.digest = NULL],
                  ClosedHash(a, <<>>)} :
           a \in DocumentAlgorithms, doc \in {Document, OtherDocument}}

InitDocument ==
  /\ cfg \in {<<c>> : c \in DocumentConfigs}
  /\ mem = <<>>
  /\ stamps = <<>>
  /\ out = 0
  /\ call = NoCall
  /\ sys = [sizeof_time_t |-> 8]

\* GTTimestamp_checkDocumentHash() of timestamp i and data hash data_hash
CheckDocumentHash(i, data_hash) ==
  /\ i \in 1..Len(stamps)
  /\ call' = [NoCall EXCEPT !.op = "GTTimestamp_checkDocumentHash",
                            !.arg = <<i, data_hash>>,
                            !.res = GTTimestamp_checkDocumentHash(stamps[i], data_hash)]
  /\ UNCHANGED <<cfg, mem, stamps, out, sys>>

NextDocument ==
  \/ DERDecode(1)
  \/ \E dh \in DataHashes : CheckDocumentHash(1, Ptr(dh))
  \/ CheckDocumentHash(1, NULL)

SpecDocument == InitDocument /\ [][NextDocument]_vars

\* the last call compared timestamp 1 with a data hash that has a digest
DocumentChecked ==
  /\ call.op = "GTTimestamp_checkDocumentHash"
  /\ call.arg[2] # NULL
  /\ Deref(call.arg[2]).digest # NULL

\* the algorithm of the data hash is the one of the messageImprint
SameAlgorithm == Deref(call.arg[2]).algorithm = cfg[1].f_mi_alg

\* the digest of the data hash is hashedMessage, in length and bytes
SameDigest ==
  Deref(Deref(call.arg[2]).digest) = DocumentDigest(cfg[1].f_mi_alg, Document)

\* the data hash is closed and not empty, and the messageImprint names a
\* trusted algorithm with absent or NULL parameters
ComparableHash ==
  /\ Deref(call.arg[2]).digest_length # 0
  /\ Deref(call.arg[2]).context = NULL
  /\ cfg[1].f_mi_alg >= 0
  /\ cfg[1].f_mi_param \in {"absent", "null"}

\* C11 as stated: GTTimestamp_checkDocumentHash returns GT_OK iff algorithm
\* and digest of the data hash equal those of the messageImprint,
\* GT_DIFFERENT_HASH_ALGORITHMS whenever the algorithms differ, and
\* GT_WRONG_DOCUMENT when the algorithms agree and the digests differ.
C11_AlgorithmThenDigest ==
  DocumentChecked =>
    /\ call.res = "GT_OK" <=> (SameAlgorithm /\ SameDigest)
    /\ ~SameAlgorithm => call.res = "GT_DIFFERENT_HASH_ALGORITHMS"
    /\ (SameAlgorithm /\ ~SameDigest) => call.res = "GT_WRONG_DOCUMENT"

\* C11 amended: for a closed, non-empty data hash and a messageImprint of a
\* trusted algorithm with absent or NULL parameters the result is GT_OK iff
\* algorithm and digest agree, GT_DIFFERENT_HASH_ALGORITHMS whenever the
\* algorithms differ and GT_WRONG_DOCUMENT when only the digests differ;
\* before that, an empty or open data hash gives GT_INVALID_ARGUMENT and an
\* untrusted or parameterised messageImprint algorithm gives
\* GT_UNTRUSTED_HASH_ALGORITHM, whatever else holds.
C11_ComparableHashCompared ==
  DocumentChecked =>
    call.res =
      IF Deref(call.arg[2]).digest_length = 0 \/ Deref(call.arg[2]).context # NULL
      THEN "GT_INVALID_ARGUMENT"
      ELSE IF ~ComparableHash THEN "GT_UNTRUSTED_HASH_ALGORITHM"
      ELSE IF ~SameAlgorithm THEN "GT_DIFFERENT_HASH_ALGORITHMS"
      ELSE IF ~SameDigest THEN "GT_WRONG_DOCUMENT"
      ELSE "GT_OK"

\* a digest equal to hashedMessage was handed in under another algorithm of
\* the same digest size and the algorithms were reported to differ
C11_Witness ==
  /\ DocumentChecked /\ ComparableHash
  /\ SameDigest /\ ~SameAlgorithm
  /\ call.res = "GT_DIFFERENT_HASH_ALGORITHMS"


(***************************************************************************)
(* GTTimestamp_checkPublicKey. A publications file is                      *)
(*   [number_of_key_hashes, key_hash_cells], cell i (from 0) holding       *)
(*   key_publication_time and the imprint of the key hash.                 *)
(***************************************************************************)
\* the DER of a public key of the given name
KeyDER(id) == <<StrCode(id)>>

\* i2d_X509_PUBKEY(): the DER of the key, or a negative length
i2d_X509_PUBKEY(key) ==
  IF key.form = "ok" THEN [len |-> Len(KeyDER(key.id)), der |-> KeyDER(key.id)]
  ELSE [len |-> -1, der |-> <<>>]

\* GTPublicationsFile_getKeyHash(publications_file, i, &imprint, &size)
GTPublicationsFile_getKeyHash(publications_file, i) ==
  [res |-> "GT_OK",
   imprint |-> publications_file.key_hash_cells[i + 1].imprint,
   size |-> Len(publications_file.key_hash_cells[i + 1].imprint)]

\* equality of the publication time rejected
KeyCellResult_strict(keycell, history_identifier) ==
  IF keycell.key_publication_time >= history_identifier
  THEN "GT_CERT_TICKET_TOO_OLD"
  ELSE "GT_OK"

\* the result of GTTimestamp_checkPublicKey once the key hash of keycell
\* equals the hash of the key
KeyCellResult(keycell, history_identifier) ==
  IF keycell.key_publication_time > history_identifier
  THEN "GT_CERT_TICKET_TOO_OLD"
  ELSE "GT_OK"

\* the for loop of GTTimestamp_checkPublicKey from index i on; key_hash is
\* NULL or points to the imprint computed last
RECURSIVE checkPublicKeyLoop(_, _, _, _, _)
checkPublicKeyLoop(publications_file, i, key_hash, key_der, history_identifier) ==
  IF i >= publications_file.number_of_key_hashes THEN "GT_KEY_NOT_PUBLISHED"
  ELSE LET Compare(cur, hash) ==
             IF hash = NULL
             THEN checkPublicKeyLoop(publications_file, i + 1, NULL, key_der,
                                     history_identifier)
             ELSE IF Len(Deref(hash)) # cur.size
             THEN checkPublicKeyLoop(publications_file, i + 1, hash, key_der,
                                     history_identifier)
             ELSE IF Deref(hash) = cur.imprint
             THEN KeyCellResult(publications_file.key_hash_cells[i + 1],
                                history_identifier)
             ELSE checkPublicKeyLoop(publications_file, i + 1, hash, key_der,
                                     history_identifier)
           Entry(cur) ==
             IF cur.res # "GT_OK" THEN cur.res
             ELSE Compare(cur,
                          IF key_hash = NULL \/ Deref(key_hash)[1] # cur.imprint[1]
                          THEN IF GT_isSupportedHashAlgorithm(cur.imprint[1])
                               THEN Ptr(GT_calculateDataImprint(key_der, cur.imprint[1]))
                               ELSE NULL
                          ELSE key_hash)
       IN Entry(GTPublicationsFile_getKeyHash(publications_file, i))

\* GTTimestamp_checkPublicKey(timestamp, history_identifier, publications_file)
GTTimestamp_checkPublicKey(tokens, timestamp, history_identifier, publications_file) ==
  LET Scan(key) ==
        IF key.len < 0 THEN "GT_CRYPTO_FAILURE"
        ELSE checkPublicKeyLoop(publications_file, 0, NULL, key.der, history_identifier)
      Certificate(certificate) ==
        IF certificate = NULL THEN "GT_INVALID_FORMAT"
        ELSE Scan(i2d_X509_PUBKEY(Deref(certificate).key))
  IN Certificate(PKCS7_cert_from_signer_info(tokens[timestamp.token],
                                             SignerInfoOf(tokens, timestamp)))

(***************************************************************************)
(* SpecKey: a short-term timestamp, its signer certificate present,        *)
(* missing or with a key that cannot be encoded, is decoded and its key    *)
(* looked up in publications files of up to MaxKeyHashes key hashes.       *)
(***************************************************************************)
MaxKeyHashes == 3

KeyConfigs ==
  {Default, [Default EXCEPT !.t_cert = "absent"], [Default EXCEPT !.f_key_form = "bad"]}

\* key hash imprints: of the signer's key under two algorithms, of another
\* key, of an algorithm the library does not know, and one cut short
KeyImprints ==
  {GT_calculateDataImprint(KeyDER("K1"), GT_HASHALG_SHA256),
   GT_calculateDataImprint(KeyDER("K1"), GT_HASHALG_SHA1),
   GT_calculateDataImprint(KeyDER("K2"), GT_HASHALG_SHA256),
   <<9>> \o Hash(GT_HASHALG_SHA256, KeyDER("K1")),
   SubSeq(GT_calculateDataImprint(KeyDER("K1"), GT_HASHALG_SHA256), 1, 32)}

KeyTimes == {1, 2}

KeyHashCells == [key_publication_time : KeyTimes, imprint : KeyImprints]

PublicationsFiles ==
  UNION {{[number_of_key_hashes |-> n, key_hash_cells |-> cells] :
            cells \in [1..n -> KeyHashCells]} : n \in 0..MaxKeyHashes}

InitKey ==
  /\ cfg \in {<<c>> : c \in KeyConfigs}
  /\ mem = <<>>
  /\ stamps = <<>>
  /\ out = 0
  /\ call = NoCall
  /\ sys = [sizeof_time_t |-> 8]

\* GTTimestamp_checkPublicKey() of timestamp i; the lookup reads the
\* timestamp and the file only, and one is made per decoded timestamp
CheckPublicKey(i, history_identifier, publications_file) ==
  /\ i \in 1..Len(stamps)
  /\ call.op = "GTTimestamp_DERDecode"
  /\ call' = [NoCall EXCEPT
                !.op = "GTTimestamp_checkPublicKey",
                !.arg = <<i, history_identifier, publications_file>>,
                !.res = GTTimestamp_checkPublicKey(mem, stamps[i], history_identifier,
                                                   publications_file)]
  /\ UNCHANGED <<cfg, mem, stamps, out, sys>>

NextKey ==
  \/ DERDecode(1)
  \/ \E t \in KeyTimes, pf \in PublicationsFiles : CheckPublicKey(1, t, pf)

SpecKey == InitKey /\ [][NextKey]_vars

\* the last call looked up the key of a timestamp whose signer certificate
\* is present with a key that can be encoded
KeyChecked ==
  /\ call.op = "GTTimestamp_checkPublicKey"
  /\ cfg[1].t_cert = "present" /\ cfg[1].f_key_form = "ok"

\* the indexes (from 1) of the key hashes of the file of the last call that
\* equal the hash of the signer's key under their own algorithm
MatchingKeyHashes ==
  LET cells == call.arg[3].key_hash_cells
  IN {i \in 1..Len(cells) :
        /\ GT_isSupportedHashAlgorithm(cells[i].imprint[1])
        /\ cells[i].imprint = <<cells[i].imprint[1]>>
                                \o Hash(cells[i].imprint[1], KeyDER("K1"))}

FirstMatchingKeyHash == CHOOSE i \in MatchingKeyHashes : \A j \in MatchingKeyHashes : i <= j

\* C12: GTTimestamp_checkPublicKey is decided by the first key hash, in index
\* order, that equals the hash of the signer's key under its own algorithm:
\* GT_OK if its key_publication_time is at most the registered time handed
\* in, GT_CERT_TICKET_TOO_OLD if it is greater, GT_KEY_NOT_PUBLISHED if no
\* key hash matches; key hashes of unknown algorithms or of another size are
\* skipped.
C12_FirstMatchDecides ==
  KeyChecked =>
    call.res =
      IF MatchingKeyHashes = {} THEN "GT_KEY_NOT_PUBLISHED"
      ELSE IF call.arg[3].key_hash_cells[FirstMatchingKeyHash].key_publication_time
                <= call.arg[2]
      THEN "GT_OK"
      ELSE "GT_CERT_TICKET_TOO_OLD"

\* a key hash of an unknown algorithm was skipped, the first matching key
\* hash was published after the registered time and a later matching one
\* at the registered time: the ticket is too old
C12_Witness ==
  /\ KeyChecked
  /\ Len(call.arg[3].key_hash_cells) = 3
  /\ ~GT_isSupportedHashAlgorithm(call.arg[3].key_hash_cells[1].imprint[1])
  /\ MatchingKeyHashes = {2, 3}
  /\ call.arg[3].key_hash_cells[2].key_publication_time > call.arg[2]
  /\ call.arg[3].key_hash_cells[3].key_publication_time = call.arg[2]
  /\ call.res = "GT_CERT_TICKET_TOO_OLD"


(***************************************************************************)
(* SpecLocation: extractLocation applied to location chains whose four     *)
(* regions (client, local, state, national) hold chosen numbers of         *)
(* direction bits. A region is [n, ones]: n cluster bits, all of them 1    *)
(* or every other one; the machine and slot bits that follow are 0. At     *)
(* most one region of a chain holds more than two cluster bits.            *)
(***************************************************************************)
MaxClusterBits == 17

ClusterSizes == {1, 2, 16, MaxClusterBits}

Regions == [n : ClusterSizes, ones : BOOLEAN]

\* the hash bits of a region in chain order: the cluster bits, then extra
\* bits for slot and machine
RegionBits(region, extra) ==
  [i \in 1..(region.n + extra) |->
     IF i > region.n THEN 0 ELSE IF region.ones \/ i % 2 = 1 THEN 1 ELSE 0]

\* the steps of the given hash bits, all of one level
RECURSIVE RegionSteps(_, _, _)
RegionSteps(bits, i, level) ==
  IF i > Len(bits) THEN <<>>
  ELSE MkStep(1, 1 - bits[i], 0, Rep(17, 20), level) \o RegionSteps(bits, i + 1, level)

\* the location chain of the four regions, closed by a step of the hasher
RegionChain(shape) ==
  RegionSteps(RegionBits(shape.client, slot_bits_state + ab_bits_state), 1, 2)
  \o RegionSteps(RegionBits(shape.local, slot_bits_national + ab_bits_national), 1,
                 state_level + 1)
  \o RegionSteps(RegionBits(shape.state, slot_bits_top + ab_bits_top), 1,
                 national_level + 1)
  \o RegionSteps(RegionBits(shape.national, 0), 1, top_level + 1)
  \o MkStep(1, 0, 0, Rep(17, 20), 255)

\* the value of the cluster bits of a region, the bit nearest the root being
\* the most significant
RECURSIVE ClusterValue(_, _)
ClusterValue(region, i) ==
  IF i > region.n THEN 0
  ELSE RegionBits(region, 0)[i] * Pow2(i - 1) + ClusterValue(region, i + 1)

LocationShapes ==
  {shape \in [client : Regions, local : Regions, state : Regions, national : Regions] :
     Cardinality({r \in DOMAIN shape : shape[r].n > 2}) <= 1}

InitLocation ==
  /\ cfg \in {<<shape>> : shape \in LocationShapes}
  /\ mem = <<>>
  /\ stamps = <<>>
  /\ out = 0
  /\ call = NoCall
  /\ sys = [sizeof_time_t |-> 8]

\* extractLocation() of the chain of shape i
ExtractLocation(i) ==
  /\ i \in 1..Len(cfg)
  /\ call.op = "none"
  /\ LET Returned(r) ==
           call' = [NoCall EXCEPT !.op = "extractLocation", !.arg = <<i>>,
                                  !.res = r.res, !.data = r.location_id]
     IN Returned(extractLocation(RegionChain(cfg[i])))
  /\ UNCHANGED <<cfg, mem, stamps, out, sys>>

NextLocation == ExtractLocation(1)

SpecLocation == InitLocation /\ [][NextLocation]_vars

\* C13: for every location chain that extractLocation decodes with GT_OK,
\* location_id is four disjoint 16-bit fields: bits 48-63 are
\* national_cluster, bits 32-47 state_cluster, bits 16-31 local_cluster and
\* bits 0-15 client_id, each exactly the value collected from the direction
\* bits of its region.
C13_DisjointFields ==
  (call.op = "extractLocation" /\ call.res = "GT_OK") =>
    call.data = <<ClusterValue(cfg[1].national, 1), ClusterValue(cfg[1].state, 1),
                  ClusterValue(cfg[1].local, 1), ClusterValue(cfg[1].client, 1)>>

\* the packing as the code computes it: the fields or-ed 16 bits apart, the
\* bits of a field above its 16th or-ed into the field above it
LocationPackedWithSpill ==
  (call.op = "extractLocation" /\ call.res = "GT_OK") =>
    LET Packed(national, state, local, client) ==
          call.data = <<BitOr(national % 65536, state \div 65536, 16),
                        BitOr(state % 65536, local \div 65536, 16),
                        BitOr(local % 65536, client \div 65536, 16),
                        client % 65536>>
    IN Packed(ClusterValue(cfg[1].national, 1), ClusterValue(cfg[1].state, 1),
              ClusterValue(cfg[1].local, 1), ClusterValue(cfg[1].client, 1))


(***************************************************************************)
(* GT_ASN1_TIME_get (asn1_time_get.c). An ASN1_TIME is                     *)
(*   [type, data, length]: data the characters as ASCII codes, followed    *)
(* in memory by the terminating 0.                                         *)
(* The 64-bit *result is kept as the pair <<days, seconds>> that stands    *)
(* for days * 86400 + seconds: every term the code adds after the time of  *)
(* day is a multiple of 86400, and for four-digit years the sum is far     *)
(* inside 64 bits.                                                         *)
(***************************************************************************)
\* static const char days[2][12]
days ==
  <<<<31, 28, 31, 30, 31, 30, 31, 31, 30, 31, 30, 31>>,
    <<31, 29, 31, 30, 31, 30, 31, 31, 30, 31, 30, 31>>>>

\* the character s points at; s is the offset from a->data
CharAt(a, s) == IF s < Len(a.data) THEN a.data[s + 1] ELSE 0

IsDigit(ch) == ch >= 48 /\ ch <= 57

\* pint(&s, n, min, max, &e): the value returned, the new s and the new e
RECURSIVE pintLoop(_, _, _, _, _, _, _)
pintLoop(a, s, n, min, max, e, retval) ==
  IF n = 0
  THEN [v |-> retval, s |-> s,
        e |-> IF retval < min \/ retval > max THEN "GT_INVALID_FORMAT" ELSE e]
  ELSE IF ~IsDigit(CharAt(a, s))
  THEN [v |-> 0, s |-> s, e |-> "GT_INVALID_FORMAT"]
  ELSE pintLoop(a, s + 1, n - 1, min, max, e, retval * 10 + (CharAt(a, s) - 48))

pint(a, s, n, min, max, e) == pintLoop(a, s, n, min, max, e, 0)

\* "while (*s == '.' || *s == ',' || (*s >= '0' && *s <= '9')) ++s"
RECURSIVE SkipFraction(_, _)
SkipFraction(a, s) ==
  IF CharAt(a, s) = 46 \/ CharAt(a, s) = 44 \/ IsDigit(CharAt(a, s))
  THEN SkipFraction(a, s + 1)
  ELSE s

isleap(year) == IF (year % 4 = 0 /\ year % 100 # 0) \/ year % 400 = 0 THEN 1 ELSE 0

\* "for (i = t.tm_mon - 1; i >= 0; --i) *result += days[isleap][i] * 86400", in days
RECURSIVE MonthDays(_, _)
MonthDays(leap, i) == IF i < 0 THEN 0 ELSE days[leap + 1][i + 1] + MonthDays(leap, i - 1)

\* "for (i = 1900; i >= year; i -= 100) if (i % 400 != 0) *result += 86400", in days
RECURSIVE CenturyDaysBefore(_, _)
CenturyDaysBefore(year, i) ==
  IF i >= year
  THEN (IF i % 400 = 0 THEN 0 ELSE 1) + CenturyDaysBefore(year, i - 100)
  ELSE 0

\* the same loop counting from 2000
RECURSIVE CenturyDaysAfter_from2000(_, _)
CenturyDaysAfter_from2000(year, i) ==
  IF i - 100 < year
  THEN 1 + CenturyDaysAfter_from2000(year, i + 100)
  ELSE 0

\* "for (i = 2100; i < year; i += 100) if (i % 400 != 0) *result -= 86400", in days
RECURSIVE CenturyDaysAfter(_, _)
CenturyDaysAfter(year, i) ==
  IF i < year
  THEN (IF i % 400 = 0 THEN 0 ELSE 1) + CenturyDaysAfter(year, i + 100)
  ELSE 0

\* days * 86400 + seconds with 0 <= seconds < 86400
Time64(d, seconds) == <<d + (seconds \div 86400), seconds % 86400>>

\* lines 145-198: the conversion "by hand" of struct tm t and offset
TimeByHand(t, offset) ==
  LET Checked(year, result) ==
        [error |-> IF (year < 1970 /\ result[1] >= 0) \/ (year >= 1970 /\ result[1] < 0)
                   THEN "GT_TIME_OVERFLOW" ELSE "GT_OK",
         result |-> result]
      Years(year, seconds, d) ==
        Checked(year,
                Time64(IF year < 1970
                       THEN d + (year - 1970) * 365 - ((1970 - year + 2) \div 4)
                              + CenturyDaysBefore(year, 1900)
                       ELSE d + (year - 1970) * 365 + ((year - 1970 + 1) \div 4)
                              - CenturyDaysAfter(year, 2100),
                       seconds))
      Months(year, seconds) ==
        Years(year, seconds, (t.tm_mday - 1) + MonthDays(isleap(year), t.tm_mon - 1))
  IN Months(t.tm_year + 1900, t.tm_sec + (t.tm_min - offset) * 60 + t.tm_hour * 3600)

\* lines 113-135: the zone designator at s, then the conversion
TimeZone(a, t, s) ==
  LET Fail == [error |-> "GT_INVALID_FORMAT", result |-> NULL]
      End(offset, s1) == IF CharAt(a, s1) # 0 THEN Fail ELSE TimeByHand(t, offset)
      Minutes(i, hh, mm) ==
        IF mm.e # "GT_OK" THEN [error |-> mm.e, result |-> NULL]
        ELSE End(IF i THEN -(hh.v * 60 + mm.v) ELSE hh.v * 60 + mm.v, mm.s)
      Hours(i, hh) == Minutes(i, hh, pint(a, hh.s, 2, 0, 59, hh.e))
  IN IF CharAt(a, s) = 90 THEN End(0, s + 1)
     ELSE IF CharAt(a, s) = 45 \/ CharAt(a, s) = 43
     THEN Hours(CharAt(a, s) = 45, pint(a, s + 1, 2, 0, 12, "GT_OK"))
     ELSE Fail

\* GT_ASN1_TIME_get(a, &result): the code returned and *result; result is
\* NULL when the code leaves *result alone and "mktime" when it is what
\* mktime() makes of the fields as local time
GT_ASN1_TIME_get(a) ==
  LET generalized == a.type = "V_ASN1_GENERALIZEDTIME"
      Fail(error) == [error |-> error, result |-> NULL]
      Local(t, s) ==
        IF generalized /\ CharAt(a, SkipFraction(a, s)) = 0
        THEN [error |-> "GT_OK", result |-> "mktime"]
        ELSE TimeZone(a, t, IF generalized THEN SkipFraction(a, s) ELSE s)
      Parsed(t, p) ==
        IF p.e # "GT_OK" THEN Fail(p.e) ELSE Local([t EXCEPT !.tm_sec = p.v], p.s)
      Sec(t, p) ==
        Parsed([t EXCEPT !.tm_min = p.v],
               IF IsDigit(CharAt(a, p.s)) THEN pint(a, p.s, 2, 0, 59, p.e)
               ELSE [v |-> 0, s |-> p.s, e |-> p.e])
      Min(t, p) == Sec([t EXCEPT !.tm_hour = p.v], pint(a, p.s, 2, 0, 59, p.e))
      Hour(t, p) == Min([t EXCEPT !.tm_mday = p.v], pint(a, p.s, 2, 0, 23, p.e))
      Mday(t, p) == Hour([t EXCEPT !.tm_mon = p.v - 1], pint(a, p.s, 2, 1, 31, p.e))
      Mon(p) ==
        Mday([tm_year |-> IF generalized THEN p.v - 1900
                          ELSE IF p.v < 50 THEN p.v + 100 ELSE p.v,
              tm_mon |-> 0, tm_mday |-> 0, tm_hour |-> 0, tm_min |-> 0, tm_sec |-> 0],
             pint(a, p.s, 2, 1, 12, p.e))
  IN IF a.type # "V_ASN1_GENERALIZEDTIME" /\ a.type # "V_ASN1_UTCTIME"
     THEN Fail("GT_INVALID_FORMAT")
     ELSE IF a.data = NULL THEN Fail("GT_INVALID_FORMAT")
     ELSE IF a.length < Len(a.data) /\ a.data[a.length + 1] # 0
     THEN Fail("GT_INVALID_FORMAT")
     ELSE Mon(IF generalized THEN pint(a, 0, 4, 0, 9999, "GT_OK")
              ELSE pint(a, 0, 2, 0, 99, "GT_OK"))


(***************************************************************************)
(* SpecTime: GT_ASN1_TIME_get applied to times written out from their      *)
(* fields: [type, year, mon, mday, hour, min, sec, frac, zone], sec = -1   *)
(* for a time without seconds, frac for ".5" after the time of day, zone   *)
(* [sign, hh, mm] with sign "Z", "+", "-" or "none" (no designator).       *)
(***************************************************************************)
Digits2(n) == <<48 + ((n \div 10) % 10), 48 + (n % 10)>>

Digits4(n) == Digits2(n \div 100) \o Digits2(n % 100)

ZoneString(zone) ==
  IF zone.sign = "Z" THEN <<90>>
  ELSE IF zone.sign = "+" THEN <<43>> \o Digits2(zone.hh) \o Digits2(zone.mm)
  ELSE IF zone.sign = "-" THEN <<45>> \o Digits2(zone.hh) \o Digits2(zone.mm)
  ELSE <<>>

TimeString(x) ==
  (IF x.type = "V_ASN1_UTCTIME" THEN Digits2(x.year % 100) ELSE Digits4(x.year))
  \o Digits2(x.mon) \o Digits2(x.mday) \o Digits2(x.hour) \o Digits2(x.min)
  \o (IF x.sec = -1 THEN <<>> ELSE Digits2(x.sec))
  \o (IF x.frac THEN <<46, 53>> ELSE <<>>)
  \o ZoneString(x.zone)

ASN1_TIME(x) == [type |-> x.type, data |-> TimeString(x), length |-> Len(TimeString(x))]

TimeYears == {0, 1600, 1899, 1900, 1968, 1969, 1970, 1972, 2000, 2100, 2101, 9999}

UTCTimeYears == {1950, 1969, 1970, 1999, 2000, 2049}

TimeZones ==
  {[sign |-> "Z", hh |-> 0, mm |-> 0], [sign |-> "none", hh |-> 0, mm |-> 0],
   [sign |-> "+", hh |-> 1, mm |-> 0], [sign |-> "-", hh |-> 1, mm |-> 0],
   [sign |-> "+", hh |-> 12, mm |-> 59], [sign |-> "-", hh |-> 13, mm |-> 0]}

TimeInputs ==
  {[type |-> ty, year |-> y, mon |-> mo, mday |-> d, hour |-> clock[1], min |-> clock[2],
    sec |-> seconds[1], frac |-> seconds[2], zone |-> z] :
     ty \in {"V_ASN1_GENERALIZEDTIME"}, y \in TimeYears, mo \in {1, 2, 4, 12, 13},
     d \in {1, 28, 29, 30, 31, 32}, clock \in {<<0, 0>>, <<23, 59>>, <<24, 0>>},
     seconds \in {<<-1, FALSE>>, <<0, FALSE>>, <<59, TRUE>>, <<-1, TRUE>>}, z \in TimeZones}
  \cup
  {[type |-> ty, year |-> y, mon |-> mo, mday |-> d, hour |-> clock[1], min |-> clock[2],
    sec |-> seconds[1], frac |-> seconds[2], zone |-> z] :
     ty \in {"V_ASN1_UTCTIME", "V_ASN1_OCTET_STRING"}, y \in UTCTimeYears, mo \in {2, 4, 12},
     d \in {1, 29, 31}, clock \in {<<0, 0>>, <<23, 59>>},
     seconds \in {<<-1, FALSE>>, <<59, FALSE>>, <<59, TRUE>>}, z \in TimeZones}

InitTime ==
  /\ cfg \in {<<x>> : x \in TimeInputs}
  /\ mem = <<>>
  /\ stamps = <<>>
  /\ out = 0
  /\ call = NoCall
  /\ sys = [sizeof_time_t |-> 8]

\* GT_ASN1_TIME_get() of the time i; mktime() of a local time gives a value
\* that depends on the time zone of the process, or (time_t) -1
ASN1TimeGet(i) ==
  /\ i \in 1..Len(cfg)
  /\ call.op = "none"
  /\ LET Returned(r) ==
           \/ /\ r.result # "mktime"
              /\ call' = [NoCall EXCEPT !.op = "GT_ASN1_TIME_get", !.arg = <<i>>,
                                        !.res = r.error, !.data = r.result]
           \/ /\ r.result = "mktime"
              /\ \E failed \in BOOLEAN :
                   call' = [NoCall EXCEPT !.op = "GT_ASN1_TIME_get", !.arg = <<i>>,
                                          !.res = IF failed THEN "GT_TIME_OVERFLOW" ELSE "GT_OK",
                                          !.data = IF failed THEN <<-1, 86399>> ELSE "mktime"]
     IN Returned(GT_ASN1_TIME_get(ASN1_TIME(cfg[i])))
  /\ UNCHANGED <<cfg, mem, stamps, out, sys>>

NextTime == ASN1TimeGet(1)

SpecTime == InitTime /\ [][NextTime]_vars

\* the proleptic Gregorian calendar
IsLeapYear(y) == y % 4 = 0 /\ (y % 100 # 0 \/ y % 400 = 0)

MonthLength(y, m) ==
  IF m = 2 THEN (IF IsLeapYear(y) THEN 29 ELSE 28)
  ELSE IF m \in {4, 6, 9, 11} THEN 30 ELSE 31

\* days from 0000-01-01 to y-01-01
DaysBeforeYear(y) ==
  IF y = 0 THEN 0
  ELSE 365 * y + ((y - 1) \div 4) - ((y - 1) \div 100) + ((y - 1) \div 400) + 1

RECURSIVE DaysBeforeMonth(_, _)
DaysBeforeMonth(y, m) ==
  IF m <= 1 THEN 0 ELSE MonthLength(y, m - 1) + DaysBeforeMonth(y, m - 1)

\* days from 1970-01-01 to the date of x
EpochDays(x) ==
  DaysBeforeYear(x.year) - DaysBeforeYear(1970) + DaysBeforeMonth(x.year, x.mon) + x.mday - 1

SecondsOfDay(x) == x.hour * 3600 + x.min * 60 + (IF x.sec = -1 THEN 0 ELSE x.sec)

TimeGot == call.op = "GT_ASN1_TIME_get"

\* x is written as UTCTime or GeneralizedTime
TimeSyntax(x) ==
  \/ x.type = "V_ASN1_GENERALIZEDTIME"
  \/ x.type = "V_ASN1_UTCTIME" /\ ~x.frac

\* the fields of x are a date of the calendar and a time of day
ValidDateTime(x) ==
  /\ x.mon \in 1..12
  /\ x.mday \in 1..MonthLength(x.year, x.mon)
  /\ x.hour \in 0..23 /\ x.min \in 0..59 /\ x.sec \in -1..59

NumericOffset(x) == x.zone.sign \in {"+", "-"} /\ x.zone.hh <= 12 /\ x.zone.mm <= 59

C15_NonexistentDateRejected ==
  (TimeGot /\ ~(TimeSyntax(cfg[1]) /\ ValidDateTime(cfg[1])
                /\ (cfg[1].zone.sign = "Z" \/ NumericOffset(cfg[1])
                    \/ (cfg[1].zone.sign = "none" /\ cfg[1].type = "V_ASN1_GENERALIZEDTIME"))))
    => call.res = "GT_INVALID_FORMAT"

\* C16: for a numeric offset +hhmm or -hhmm the result is GT_OK with the value
\* of the same fields with Z, minus the offset for + and plus the offset for
\* -, also when that instant lies on the other side of 1970 than the year
\* written.
C16_OffsetApplied ==
  (TimeGot /\ TimeSyntax(cfg[1]) /\ ValidDateTime(cfg[1]) /\ NumericOffset(cfg[1])) =>
    /\ call.res = "GT_OK"
    /\ call.data = Time64(EpochDays(cfg[1]),
                          SecondsOfDay(cfg[1])
                          + (IF cfg[1].zone.sign = "+" THEN -1 ELSE 1)
                            * (cfg[1].zone.hh * 60 + cfg[1].zone.mm) * 60)


(***************************************************************************)
(* Base32 (base32.c). Strings are sequences of ASCII codes without the     *)
(* terminating 0; data are sequences of bytes.                             *)
(***************************************************************************)
\* bitwise AND of two naturals below 2^n
RECURSIVE BitAnd(_, _, _)
BitAnd(a, b, n) ==
  IF n = 0 THEN 0
  ELSE (IF a % 2 = 1 /\ b % 2 = 1 THEN 1 ELSE 0) + 2 * BitAnd(a \div 2, b \div 2, n - 1)

\* "ABCDEFGHIJKLMNOPQRSTUVWXYZ234567"
base32EncodeTable == [i \in 1..32 |-> IF i <= 26 THEN 64 + i ELSE 23 + i]

\* { -1, -1, 26, 27, 28, 29, 30, 31, -1, -1 } as unsigned char
base32NumDecTable == <<255, 255, 26, 27, 28, 29, 30, 31, 255, 255>>

makeMask(bit_count) == Pow2(bit_count) - 1

\* addBits(buf, &bits_decoded, bits): the new buf and bits_decoded
addBits(buf, bits_decoded, bits) ==
  LET Second(buf1, decoded1, bits_to_second_byte) ==
        [buf |-> [buf1 EXCEPT ![(decoded1 \div 8) + 1] =
                    BitOr(@, BitAnd(bits, makeMask(bits_to_second_byte), 8)
                               * Pow2(8 - bits_to_second_byte), 8)],
         bits_decoded |-> decoded1 + bits_to_second_byte]
      First(bits_to_first_byte, shift_count) ==
        LET Stored(buf1) ==
              IF bits_to_first_byte < 5
              THEN Second(buf1, bits_decoded + bits_to_first_byte, 5 - bits_to_first_byte)
              ELSE [buf |-> buf1, bits_decoded |-> bits_decoded + bits_to_first_byte]
        IN Stored([buf EXCEPT ![(bits_decoded \div 8) + 1] =
                 BitOr(@, (BitAnd(bits, makeMask(bits_to_first_byte)
                                          * Pow2(5 - bits_to_first_byte), 8)
                            \div Pow2(5 - bits_to_first_byte)) * Pow2(shift_count), 8)])
      Bits(bits_to_first_byte) ==
        First(bits_to_first_byte, 8 - bits_to_first_byte - (bits_decoded % 8))
  IN IF bits < 0 THEN [buf |-> buf, bits_decoded |-> bits_decoded]
     ELSE Bits(IF 8 - (bits_decoded % 8) > 5 THEN 5 ELSE 8 - (bits_decoded % 8))

\* the for loop of GT_base32Decode from index i
RECURSIVE base32DecodeLoop(_, _, _, _)
base32DecodeLoop(base32, base32_len, i, st) ==
  LET Char(c) ==
        IF c = 61 THEN st
        ELSE IF c >= 48 /\ c <= 57
        THEN base32DecodeLoop(base32, base32_len, i + 1,
                              addBits(st.buf, st.bits_decoded, base32NumDecTable[c - 48 + 1]))
        ELSE IF c >= 65 /\ c <= 90
        THEN base32DecodeLoop(base32, base32_len, i + 1,
                              addBits(st.buf, st.bits_decoded, c - 65))
        ELSE IF c >= 97 /\ c <= 122
        THEN base32DecodeLoop(base32, base32_len, i + 1,
                              addBits(st.buf, st.bits_decoded, c - 32 - 65))
        ELSE base32DecodeLoop(base32, base32_len, i + 1, st)
  IN IF i < base32_len THEN Char(base32[i + 1]) ELSE st

\* GT_base32Decode(base32, base32_len, &ret_len): *ret_len and the first
\* *ret_len bytes of the buffer returned
GT_base32Decode(base32, base32_len) ==
  LET Done(st) == [ret |-> SubSeq(st.buf, 1, st.bits_decoded \div 8),
                   ret_len |-> st.bits_decoded \div 8]
  IN Done(base32DecodeLoop(base32, base32_len, 0,
                           [buf |-> Rep(0, ((base32_len * 5) \div 8) + 2), bits_decoded |-> 0]))

\* readNextBits with the second byte left out
readNextBits_firstbyte(data, data_len, bits_read) ==
  IF bits_read \div 8 >= data_len THEN -1
  ELSE ((data[(bits_read \div 8) + 1] * 256) \div Pow2(11 - (bits_read % 8))) % 32

\* readNextBits(data, data_len, bits_read): the next five bits, -1 at the end
readNextBits(data, data_len, bits_read) ==
  LET Second(ret, byte_to_read, second_byte_bits) ==
        IF byte_to_read < data_len
        THEN BitOr(ret * Pow2(second_byte_bits),
                   BitAnd(data[byte_to_read + 1],
                          makeMask(second_byte_bits) * Pow2(8 - second_byte_bits), 8)
                     \div Pow2(8 - second_byte_bits), 8)
        ELSE ret * Pow2(second_byte_bits)
      First(byte_to_read, first_byte_bits, shift_count) ==
        LET Read(ret) ==
              IF first_byte_bits < 5 THEN Second(ret, byte_to_read + 1, 5 - first_byte_bits)
              ELSE ret
        IN Read(BitAnd(data[byte_to_read + 1], makeMask(first_byte_bits) * Pow2(shift_count), 8)
                  \div Pow2(shift_count))
      Bits(byte_to_read, first_byte_bits) ==
        First(byte_to_read, first_byte_bits, 8 - (bits_read % 8) - first_byte_bits)
      Byte(byte_to_read) ==
        IF byte_to_read >= data_len THEN -1
        ELSE Bits(byte_to_read,
                  IF 8 - (bits_read - byte_to_read * 8) > 5 THEN 5
                  ELSE 8 - (bits_read - byte_to_read * 8))
  IN Byte(bits_read \div 8)

\* the for loop of GT_base32Encode: ret and bits_read when it ends
RECURSIVE base32EncodeLoop(_, _, _, _, _)
base32EncodeLoop(data, data_len, group_len, bits_read, ret) ==
  LET Dash(ret1) ==
        IF Len(ret1) % (group_len + 1) = group_len /\ bits_read + 5 < data_len * 8
        THEN Append(ret1, 45) ELSE ret1
      Put(next_bits) ==
        IF next_bits = -1 THEN [ret |-> ret, bits_read |-> bits_read]
        ELSE base32EncodeLoop(data, data_len, group_len, bits_read + 5,
                              Dash(Append(ret, base32EncodeTable[next_bits + 1])))
  IN Put(readNextBits(data, data_len, bits_read))

\* the padding loop of GT_base32Encode
RECURSIVE base32PadLoop(_, _, _)
base32PadLoop(group_len, bits_read, ret) ==
  LET Dash(ret1) ==
        IF Len(ret1) % (group_len + 1) = group_len /\ bits_read % 40 # 35
        THEN Append(ret1, 45) ELSE ret1
  IN IF bits_read % 40 # 0
     THEN base32PadLoop(group_len, bits_read + 5, Dash(Append(ret, 61)))
     ELSE ret

\* buf_len of GT_base32Encode: the bytes allocated for ret
base32BufLen(data_len, group_len) ==
  LET Grouped(buf_len) ==
        (IF group_len > 0 THEN buf_len + ((buf_len - 1) \div group_len) ELSE buf_len) + 1
  IN Grouped((((data_len * 8) + 39) \div 40) * 8)

\* GT_base32Encode(data, data_len, group_len): the characters written before
\* the terminating 0, and whether the writes stay inside the buf_len bytes
GT_base32Encode(data, data_len, group_len) ==
  LET Written(ret) ==
        [ret |-> ret, inside |-> Len(ret) + 1 <= base32BufLen(data_len, group_len)]
      Pad(st) == Written(base32PadLoop(group_len, st.bits_read, st.ret))
  IN Pad(base32EncodeLoop(data, data_len, group_len, 0, <<>>))


(***************************************************************************)
(* SpecBase32: GT_base32Encode of byte strings of up to MaxDataLen bytes   *)
(* with a group length, then GT_base32Decode of the string returned.       *)
(***************************************************************************)
MaxDataLen == 5

Base32Bytes == {0, 165, 255}

GroupLens == {0, 1, 2, 3, 5, 8}

Base32Inputs ==
  {[data |-> d, group_len |-> g] :
     d \in UNION {[1..n -> Base32Bytes] : n \in 1..MaxDataLen}, g \in GroupLens}

InitBase32 ==
  /\ cfg \in {<<x>> : x \in Base32Inputs}
  /\ mem = <<>>
  /\ stamps = <<>>
  /\ out = 0
  /\ call = NoCall
  /\ sys = [sizeof_time_t |-> 8]

\* GT_base32Encode() of input i. Writes past the end of the buffer are
\* undefined: the string is returned as written or the process is killed.
Base32Encode(i) ==
  /\ i \in 1..Len(cfg)
  /\ call.op = "none"
  /\ LET Returned(r) ==
           \/ call' = [NoCall EXCEPT !.op = "GT_base32Encode", !.arg = <<i>>,
                                     !.res = "returned", !.data = r.ret]
           \/ /\ ~r.inside
              /\ call' = [NoCall EXCEPT !.op = "GT_base32Encode", !.arg = <<i>>,
                                        !.res = "killed"]
     IN Returned(GT_base32Encode(cfg[i].data, Len(cfg[i].data), cfg[i].group_len))
  /\ UNCHANGED <<cfg, mem, stamps, out, sys>>

\* GT_base32Decode() of the string the last GT_base32Encode() returned
Base32Decode ==
  /\ call.op = "GT_base32Encode"
  /\ call.res = "returned"
  /\ LET Returned(r) ==
           call' = [NoCall EXCEPT !.op = "GT_base32Decode", !.arg = <<call.arg[1], call.data>>,
                                  !.res = "returned", !.data = r.ret, !.info = r.ret_len]
     IN Returned(GT_base32Decode(call.data, Len(call.data)))
  /\ UNCHANGED <<cfg, mem, stamps, out, sys>>

NextBase32 == Base32Encode(1) \/ Base32Decode

SpecBase32 == InitBase32 /\ [][NextBase32]_vars

\* bit i (1 = first) of the data, 0 after its end
DataBit(data, i) ==
  IF i > 8 * Len(data) THEN 0 ELSE (data[((i - 1) \div 8) + 1] \div Pow2(7 - ((i - 1) % 8))) % 2

\* the base32 encoding of the data without separators: one character for
\* each five bits, '=' up to a multiple of eight characters
PlainBase32(data) ==
  [k \in 1..(((Len(data) + 4) \div 5) * 8) |->
     IF 5 * (k - 1) >= 8 * Len(data) THEN 61
     ELSE base32EncodeTable[16 * DataBit(data, 5 * k - 4) + 8 * DataBit(data, 5 * k - 3)
                            + 4 * DataBit(data, 5 * k - 2) + 2 * DataBit(data, 5 * k - 1)
                            + DataBit(data, 5 * k) + 1]]

Base32Encoded == call.op = "GT_base32Encode"

Base32Decoded == call.op = "GT_base32Decode"

\* C17: for every non-empty byte string d and every group_len >= 1,
\* GT_base32Decode of the string GT_base32Encode(d, |d|, group_len) produced
\* returns exactly d: ret_len = |d| and the same bytes.
C17_RoundTrip ==
  (Base32Decoded /\ cfg[1].group_len >= 1) =>
    call.info = Len(cfg[1].data) /\ call.data = cfg[1].data

\* a string holding separators and padding has been decoded to its data
C17_Witness ==
  /\ Base32Decoded /\ cfg[1].group_len = 2 /\ Len(cfg[1].data) = 3
  /\ \E k \in 1..Len(call.arg[2]) : call.arg[2][k] = 45
  /\ \E k \in 1..Len(call.arg[2]) : call.arg[2][k] = 61
  /\ call.data = cfg[1].data

\* C18: with group_len = 0 GT_base32Encode produces the ungrouped encoding:
\* no '-' and exactly 8 * ceil(data_len / 5) alphabet and '=' characters.
C18_Ungrouped ==
  (Base32Encoded /\ cfg[1].group_len = 0) =>
    /\ call.res = "returned"
    /\ call.data = PlainBase32(cfg[1].data)

\* C19: for group_len g >= 1 a single '-' follows every g-th character of the
\* encoding, '=' counted like the others, and none stands at the end.
C19_UniformGroups ==
  (Base32Encoded /\ cfg[1].group_len >= 1) =>
    /\ call.res = "returned"
    /\ Len(call.data) = Len(PlainBase32(cfg[1].data))
                        + ((Len(PlainBase32(cfg[1].data)) - 1) \div cfg[1].group_len)
    /\ \A k \in 1..Len(call.data) :
         IF k % (cfg[1].group_len + 1) = 0 THEN call.data[k] = 45
         ELSE call.data[k] = PlainBase32(cfg[1].data)[k - (k \div (cfg[1].group_len + 1))]


(***************************************************************************)
(* SpecSyntax: checkTimestampSyntax applied to decoded timestamps whose    *)
(* tokens break up to MaxDefects of its checks.                            *)
(***************************************************************************)
SyntaxDefects ==
  << <<"f_sd_version", 2>>, <<"f_tst_version", 2>>, <<"f_si_version", 2>>,
     <<"f_tst_ext", "critical_unknown">>, <<"t_imprint_empty", TRUE>>,
     <<"f_location", "bad_direction">>, <<"f_location", "decreasing">>,
     <<"f_history", "truncated">>, <<"f_attr_content_type", "other">>,
     <<"f_attr_digest_type", "other">> >>

InitSyntax ==
  /\ cfg \in {<<c>> : c \in Configs(Default, SyntaxDefects)}
  /\ mem = <<>>
  /\ stamps = <<>>
  /\ out = 0
  /\ call = NoCall
  /\ sys = [sizeof_time_t |-> 8]

\* checkTimestampSyntax() of timestamp i
CheckSyntax(i) ==
  /\ i \in 1..Len(stamps)
  /\ call.op = "GTTimestamp_DERDecode"
  /\ call' = [NoCall EXCEPT !.op = "checkTimestampSyntax", !.arg = <<i>>,
                            !.res = checkTimestampSyntax(mem, stamps[i])]
  /\ UNCHANGED <<cfg, mem, stamps, out, sys>>

NextSyntax == DERDecode(1) \/ CheckSyntax(1)

SpecSyntax == InitSyntax /\ [][NextSyntax]_vars

\* the checks in the stated order: whether the token of configuration c
\* violates the check, and the code of the violation
SyntaxChecks(c) ==
  << <<c.f_sd_version # 3, "GT_UNSUPPORTED_FORMAT">>,
     <<c.f_tst_version # 1, "GT_UNSUPPORTED_FORMAT">>,
     <<c.f_si_version # 1, "GT_UNSUPPORTED_FORMAT">>,
     <<c.f_tst_ext = "critical_unknown", "GT_UNSUPPORTED_FORMAT">>,
     <<c.t_imprint_empty, "GT_INVALID_FORMAT">>,
     <<c.f_location \in {"bad_direction", "bad_sibling_alg", "truncated"},
       "GT_INVALID_LINKING_INFO">>,
     <<c.f_history = "truncated", "GT_INVALID_LINKING_INFO">>,
     <<c.f_location = "decreasing", "GT_INVALID_LENGTH_BYTES">>,
     <<c.f_attr_content_type # "TSTInfo", "GT_INVALID_FORMAT">>,
     <<c.f_attr_digest_type # "octet", "GT_INVALID_FORMAT">> >>

Violated(c) == {k \in DOMAIN SyntaxChecks(c) : SyntaxChecks(c)[k][1]}

EarliestViolation(c) ==
  IF Violated(c) = {} THEN "GT_OK"
  ELSE SyntaxChecks(c)[CHOOSE k \in Violated(c) : \A j \in Violated(c) : k <= j][2]

SyntaxChecked == call.op = "checkTimestampSyntax"

\* C20: the syntactic checker returns the code of the earliest violated check
\* in the order versions, critical extension, publicationImprint, location
\* chain, history chain, location levels, contentType, messageDigest, and
\* GT_OK iff no check is violated.
C20_EarliestViolation ==
  SyntaxChecked =>
    /\ call.res = EarliestViolation(cfg[1])
    /\ (call.res = "GT_OK" <=> Violated(cfg[1]) = {})

\* a token that breaks a chain check and a later attribute check has been
\* given the code of the chain check
C20_Witness ==
  /\ SyntaxChecked
  /\ Violated(cfg[1]) = {8, 9}
  /\ call.res = "GT_INVALID_LENGTH_BYTES"

(***************************************************************************)
(* extractLocation block by block: one action for each block of the        *)
(* for ( ; ; ) loop, so that the order of the region transitions, the      *)
(* indices written in steps[] and bits[], and the assertions of            *)
(* collectBits are visible in the states. The decoder's locals are in      *)
(* call.info: pc (the block to run next), s (the locals of                 *)
(* extractLocationPass), hash_bit, hash_level, step (the offset of the     *)
(* step being processed), and two history fields: fired (the regions whose *)
(* transition has fired for the current step) and owners (for each live    *)
(* bit, the offset of the step whose direction byte produced it).          *)
(***************************************************************************)
\* const unsigned char *steps[256]; unsigned char bits[256];
StackSize == 256

\* assert(*len >= num); assert(num <= 8 * sizeof(res)); in collectBits
collectBitsAsserts(len, num) == len >= num /\ num <= 32

\* the assertions of the three collectBits calls of one region transition
RegionAsserts(chain, s, ab_bits, slot_bits) ==
  LET Third(n) == collectBitsAsserts(n.len, n.len)
      Second(m) ==
        /\ collectBitsAsserts(m.len, slot_bits)
        /\ Third(checkName(chain, s.steps, collectBits(s.bits, m.len, slot_bits).len,
                           <<>>, 0))
  IN /\ collectBitsAsserts(s.num_bits, ab_bits)
     /\ Second(collectBits(s.bits, s.num_bits, ab_bits))

\* the level a step must exceed for the transition of the region to fire
Threshold(region) ==
  CASE region = "hasher" -> hasher
    [] region = "top" -> top_level
    [] region = "national" -> national_level
    [] region = "state" -> state_level
    [] region = "client" -> 1

\* a transition that fires from the threshold level on
RegionFires_atlevel(region, hash_level, last_level) ==
  hash_level >= Threshold(region) /\ last_level < Threshold(region)

\* "hash_level > threshold && last_level <= threshold"
RegionFires(region, hash_level, last_level) ==
  hash_level > Threshold(region) /\ last_level <= Threshold(region)

\* the blocks of the loop body in the opposite order
NextRegion_ascending(pc) ==
  CASE pc = "hasher" -> "client"
    [] pc = "client" -> "state"
    [] pc = "state" -> "national"
    [] pc = "national" -> "top"
    [] pc = "top" -> "push"

\* the block that follows block pc in the loop body
NextRegion(pc) ==
  CASE pc = "hasher" -> "top"
    [] pc = "top" -> "national"
    [] pc = "national" -> "state"
    [] pc = "state" -> "client"
    [] pc = "client" -> "push"

\* the length extractLocation allocates for the location name
LocationNameLen(loc) ==
  (IF loc.national_name_len > 0 THEN loc.national_name_len ELSE no_name_len)
  + name_sep_len
  + (IF loc.state_name_len > 0 THEN loc.state_name_len ELSE no_name_len)
  + name_sep_len
  + (IF loc.local_name_len > 0 THEN loc.local_name_len ELSE no_name_len)
  + (IF loc.client_name_len > 0 THEN name_sep_len + loc.client_name_len ELSE 0)
  + 1

\* the chains decoded: runs of equal steps. A step is plain (a SHA-1 sibling)
\* or shaped like a name tag.
MaxChainSteps == 2

DecoderLevels == {0, 1, 2, 21, 22, 42, 43, 64, 65, 80, 81, 255}

Plain(level, dir, count) == [level |-> level, dir |-> dir, tag |-> FALSE, count |-> count]

Tagged(level) == [level |-> level, dir |-> 1, tag |-> TRUE, count |-> 1]

StepKinds ==
  {Plain(level, dir, 1) : level \in DecoderLevels, dir \in {0, 1}}
  \cup {Tagged(1), Tagged(22)}

ShortChains == UNION {[1..n -> StepKinds] : n \in 1..MaxChainSteps}

\* more steps than steps[] and bits[] have entries, none above level 80
LongChain == <<Plain(2, 0, StackSize + 1)>>

\* more bits than an unsigned holds when the hasher level is reached
WideChain == <<Plain(2, 1, 33), Plain(255, 0, 1)>>

\* a client name and one-bit fields
NamedChain == <<Tagged(1), Plain(2, 0, 1), Plain(255, 0, 1)>>

\* every region boundary is reached with the bits of its machine and slot
\* fields on the stack; the first step is shaped like a name tag
StaleStepChain ==
  <<Tagged(2), Plain(2, 0, 5), Plain(22, 0, 1), Plain(23, 0, 5), Plain(43, 0, 1),
    Plain(255, 0, 1)>>

\* client, local and state names, and 17 bits in the national cluster
NamedRegionsChain ==
  <<Tagged(1), Plain(2, 0, 1), Tagged(3), Plain(3, 0, 4), Plain(22, 0, 1),
    Tagged(23), Plain(23, 0, 5), Plain(43, 0, 1), Plain(44, 0, 7), Plain(65, 0, 1),
    Plain(66, 0, 16), Plain(255, 0, 1)>>

DecoderChains ==
  {[runs |-> runs, tail |-> "none"] :
     runs \in ShortChains \cup {LongChain, WideChain, NamedChain, StaleStepChain,
                                NamedRegionsChain}}
  \cup {[runs |-> runs, tail |-> tail] :
          runs \in {<<Plain(255, 0, 1)>>, <<Plain(2, 0, 1), Plain(81, 1, 1)>>},
          tail \in {"garbage", "cut"}}

StepBytes(k) ==
  IF k.tag THEN MkStep(1, 1, GT_HASHALG_SHA224, NameTagSibling, k.level)
  ELSE MkStep(1, k.dir, GT_HASHALG_SHA1, Rep(17, 20), k.level)

RunBytes(k) ==
  LET Repeat(step) == [i \in 1..(k.count * Len(step)) |-> step[((i - 1) % Len(step)) + 1]]
  IN Repeat(StepBytes(k))

RECURSIVE RunsBytes(_, _)
RunsBytes(runs, i) ==
  IF i > Len(runs) THEN <<>> ELSE RunBytes(runs[i]) \o RunsBytes(runs, i + 1)

\* the bytes of chain d: its steps, then bytes that belong to no step
\* ("garbage"), or all but the last byte of its steps ("cut")
ChainBytes(d) ==
  LET Ending(b) ==
        CASE d.tail = "garbage" -> b \o <<1, 0>>
          [] d.tail = "cut" -> SubSeq(b, 1, Len(b) - 1)
          [] OTHER -> b
  IN Ending(RunsBytes(d.runs, 1))

InitDecoder ==
  /\ cfg \in {<<d>> : d \in DecoderChains}
  /\ mem = <<>>
  /\ stamps = <<>>
  /\ out = 0
  /\ call = NoCall
  /\ sys = [sizeof_time_t |-> 8]

\* the decoder is inside extractLocation, block pc being the next one
Decoding(pc) == call.op = "extractLocation" /\ call.res = "none" /\ call.info.pc = pc

\* the decoder goes on with locals m
Goto(m) ==
  /\ call' = [call EXCEPT !.info = m]
  /\ UNCHANGED <<cfg, mem, stamps, out, sys>>

\* extractLocation returns res, or the process ends (a failed assertion, a
\* write outside an array)
Stop(res, pc) ==
  /\ call' = [call EXCEPT !.res = res, !.info.pc = pc]
  /\ UNCHANGED <<cfg, mem, stamps, out, sys>>

\* the entry of extractLocation(): the initial values of the locals
DecoderEnter(i) ==
  /\ i \in 1..Len(cfg)
  /\ call.op = "none"
  /\ call' = [NoCall EXCEPT !.op = "extractLocation", !.arg = <<i>>,
                            !.info = [pc |-> "step", s |-> LocationState0,
                                      hash_bit |-> 0, hash_level |-> 0, step |-> 0,
                                      fired |-> <<>>, owners |-> <<>>]]
  /\ UNCHANGED <<cfg, mem, stamps, out, sys>>

\* "steps[num_bits] = p" and the parsing of the step at p
DecoderStep ==
  /\ Decoding("step")
  /\ LET m == call.info
         Parsed(r) ==
           IF r.res # "GT_UNKNOWN_ERROR" THEN Stop(r.res, "return")
           ELSE Goto([m EXCEPT !.pc = "hasher", !.s = r.s, !.hash_bit = r.hash_bit,
                               !.hash_level = r.hash_level, !.step = m.s.p,
                               !.fired = <<>>])
     IN \/ m.s.num_bits >= StackSize /\ Stop("killed", "done")
        \/ Parsed(extractLocationParse(ChainBytes(cfg[1]), m.s))

\* the block "if (hash_level > hasher && last_level <= hasher)"
DecoderHasher ==
  /\ Decoding("hasher")
  /\ LET m == call.info
     IN IF RegionFires("hasher", m.hash_level, m.s.last_level)
        THEN \/ ~collectBitsAsserts(m.s.num_bits, m.s.num_bits) /\ Stop("SIGABRT", "done")
             \/ Goto([m EXCEPT !.pc = "pack",
                               !.s = HasherTransition(m.s, m.hash_bit, m.hash_level),
                               !.fired = Append(@, "hasher")])
        ELSE Goto([m EXCEPT !.pc = NextRegion("hasher")])

\* a block "if (hash_level > X_level && last_level <= X_level)": asserts are
\* the assertions of its collectBits calls, after the locals it leaves
RegionBlock(region, asserts, after) ==
  /\ Decoding(region)
  /\ LET m == call.info
     IN IF RegionFires(region, m.hash_level, m.s.last_level)
        THEN \/ ~asserts /\ Stop("SIGABRT", "done")
             \/ Goto([m EXCEPT !.pc = NextRegion(region), !.s = after,
                               !.fired = Append(@, region)])
        ELSE Goto([m EXCEPT !.pc = NextRegion(region)])

DecoderTop ==
  LET Block(chain) ==
        RegionBlock("top",
                    RegionAsserts(chain, call.info.s, ab_bits_top, slot_bits_top),
                    TopTransition(chain, call.info.s))
  IN Block(ChainBytes(cfg[1]))

DecoderNational ==
  LET Block(chain) ==
        RegionBlock("national",
                    RegionAsserts(chain, call.info.s, ab_bits_national, slot_bits_national),
                    NationalTransition(chain, call.info.s))
  IN Block(ChainBytes(cfg[1]))

DecoderState ==
  LET Block(chain) ==
        RegionBlock("state",
                    RegionAsserts(chain, call.info.s, ab_bits_state, slot_bits_state),
                    StateTransition(chain, call.info.s))
  IN Block(ChainBytes(cfg[1]))

DecoderClient ==
  RegionBlock("client", TRUE, ClientTransition(ChainBytes(cfg[1]), call.info.s))

\* "last_level = hash_level; bits[num_bits++] = hash_bit;"
DecoderPush ==
  /\ Decoding("push")
  /\ LET m == call.info
     IN \/ m.s.num_bits >= StackSize /\ Stop("killed", "done")
        \/ Goto([m EXCEPT !.pc = "step",
                          !.s = PushBit(m.s, m.hash_bit, m.hash_level),
                          !.owners = Append(SubSeq(@, 1, m.s.num_bits), m.step)])

\* after the loop: tmp_id and the location name, written into a buffer of
\* LocationNameLen bytes
DecoderPack ==
  /\ Decoding("pack")
  /\ LET m == call.info
         Named(name) ==
           \/ /\ name # NULL
              /\ Len(Deref(name)) + 1 > LocationNameLen(m.s.loc)
              /\ Stop("killed", "done")
           \/ /\ call' = [call EXCEPT !.res = "GT_OK", !.info.pc = "return",
                                      !.data = [location_id |-> PackLocationId(m.s.loc),
                                                location_name |-> name]]
              /\ UNCHANGED <<cfg, mem, stamps, out, sys>>
     IN Named(BuildLocationName(m.s.loc))

\* back in createVerificationInfo: "switch (tmp_res)"; out is the
\* verification_errors of a timestamp without other failures
DecoderReturn ==
  /\ call.op = "extractLocation"
  /\ call.res \in {"GT_OK", "GT_INVALID_LINKING_INFO"}
  /\ call.info.pc = "return"
  /\ call' = [call EXCEPT !.info.pc = "done"]
  /\ out' = LocationErrors(call.res, GT_NO_FAILURES)
  /\ UNCHANGED <<cfg, mem, stamps, sys>>

NextDecoder ==
  \/ DecoderEnter(1)
  \/ DecoderStep
  \/ DecoderHasher
  \/ DecoderTop
  \/ DecoderNational
  \/ DecoderState
  \/ DecoderClient
  \/ DecoderPush
  \/ DecoderPack
  \/ DecoderReturn

SpecDecoder == InitDecoder /\ [][NextDecoder]_vars

\* the decoder has run all blocks of the loop body for the current step
\* ("push"), or has left the loop at the hasher level ("pack")
StepDone(pc) == call.op = "extractLocation" /\ call.res = "none" /\ call.info.pc = pc

\* the transition of the region has fired for the current step
Fired(region) == \E i \in 1..Len(call.info.fired) : call.info.fired[i] = region

\* the current step's level is greater than level while last_level was not
Crosses(level) == call.info.hash_level > level /\ call.info.s.last_level <= level

\* the decoder's result for a chain that fits the stacks is that of extractLocation
DecoderAgrees ==
  call.op = "extractLocation" /\ call.info.pc = "done"
    /\ call.res \in {"GT_OK", "GT_INVALID_LINKING_INFO"} /\ cfg[1].runs # LongChain
  => LET Same(r) ==
           /\ call.res = r.res
           /\ r.res = "GT_OK" => call.data = [location_id |-> r.location_id,
                                              location_name |-> r.location_name]
     IN Same(extractLocation(ChainBytes(cfg[1])))

\* the thresholds as stated: state_level = 22
StatedLevel(region) ==
  CASE region = "state" -> 22
    [] region = "national" -> 42
    [] region = "top" -> 64
    [] region = "hasher" -> 80

\* C21 as stated: the thresholds are 22, 42, 64 and 80, and the transition of
\* a region fires at exactly the step whose level is greater than the
\* region's threshold while last_level was not.
C21_StatedThresholds ==
  StepDone("push") \/ StepDone("pack")
  => \A region \in {"state", "national", "top", "hasher"} :
          Fired(region) <=> Crosses(StatedLevel(region))

\* C21, amended: the thresholds are state_level = 21, national_level = 42,
\* top_level = 64 and hasher_level = 80, the first three being gdepth +
\* slot_bits + ab_bits - 2 of their region; the transition of a region fires
\* at exactly the step whose level is greater than the region's threshold
\* while last_level was not, except that a step that fires the hasher
\* transition fires no other.
C21_Thresholds ==
  /\ state_level = 21 /\ national_level = 42 /\ top_level = 64 /\ hasher = 80
  /\ state_level = gdepth_state + slot_bits_state + ab_bits_state - 2
  /\ national_level = gdepth_national + slot_bits_national + ab_bits_national - 2
  /\ top_level = gdepth_top + slot_bits_top + ab_bits_top - 2
  /\ StepDone("pack") => call.info.fired = <<"hasher">> /\ Crosses(80)
  /\ StepDone("push")
     => /\ ~Fired("hasher") /\ ~Crosses(80)
        /\ Fired("top") <=> Crosses(64)
        /\ Fired("national") <=> Crosses(42)
        /\ Fired("state") <=> Crosses(21)

\* the state transition has fired at a step of level 22 that follows a step
\* of level 21
C21_Witness ==
  /\ StepDone("push")
  /\ Fired("state")
  /\ call.info.hash_level = 22
  /\ call.info.s.last_level = 21

\* the four regions with a threshold of their own
LevelRegions == {"state", "national", "top", "hasher"}

\* the transitions fired for the current step, compared pairwise in the order
\* in which they fired
FiredInOrder(Before(_, _)) ==
  call.op = "extractLocation"
  => \A i, j \in 1..Len(call.info.fired) :
       i < j /\ call.info.fired[i] \in LevelRegions /\ call.info.fired[j] \in LevelRegions
       => Before(Threshold(call.info.fired[i]), Threshold(call.info.fired[j]))

NameSteps ==
  [dir : {0, 1},
   sib_alg : {GT_HASHALG_SHA1, GT_HASHALG_SHA224, GT_HASHALG_SHA256},
   tag : {0, 1},
   L : {0, 3, 25, 26, 27, 255},
   pad : {"zero", "after_name", "at_end"}]

\* the sibling digest of step v, as long as its algorithm says: tag, length,
\* the name bytes 65, 66, ... and the padding
NameSibling(v) ==
  LET size == GT_getHashSize(v.sib_alg)
      raw == [i \in 0..(size - 1) |->
                CASE i = 0 -> v.tag
                  [] i = 1 -> v.L
                  [] i >= 2 /\ i < 2 + v.L -> 63 + i
                  [] i = 2 + v.L /\ v.pad = "after_name" -> 9
                  [] i = size - 1 /\ v.pad = "at_end" -> 9
                  [] OTHER -> 0]
  IN [i \in 1..size |-> raw[i - 1]]

\* a chain of below plain steps of direction 0 and then step v, and the
\* stacks after all of them have been pushed
NameChain(v, below) ==
  RunBytes(Plain(2, 0, below)) \o MkStep(1, v.dir, v.sib_alg, NameSibling(v), 2)

NameStack(v, below) ==
  [steps |-> [i \in 1..(below + 1) |-> (i - 1) * Len(StepBytes(Plain(2, 0, 1)))],
   bits |-> [i \in 1..(below + 1) |-> IF i <= below THEN 1 ELSE 1 - v.dir]]

NameInputs ==
  [v : NameSteps, below : {0, 2}, name : {<<>>, <<88>>}]
  \cup [v : NameSteps, below : {-1}, name : {<<>>}]

InitName ==
  /\ cfg \in {<<i>> : i \in NameInputs}
  /\ mem = <<>>
  /\ stamps = <<>>
  /\ out = 0
  /\ call = NoCall
  /\ sys = [sizeof_time_t |-> 8]

\* checkName(steps, &num_bits, &name, &name_len); cluster =
\* collectBits(bits, &num_bits, num_bits); below = -1 is the empty stack
CheckName(i) ==
  /\ i \in 1..Len(cfg)
  /\ call.op = "none"
  /\ LET in == cfg[i]
         Returned(n, c) ==
           call' = [NoCall EXCEPT !.op = "checkName", !.arg = <<i>>, !.res = "returned",
                                  !.data = [len |-> n.len, name |-> n.name,
                                            name_len |-> n.name_len, cluster |-> c.res]]
         Collect(stack, n) == Returned(n, collectBits(stack.bits, n.len, n.len))
         Check(chain, stack) ==
           Collect(stack, checkName(chain, stack.steps, in.below + 1, in.name, Len(in.name)))
     IN IF in.below < 0
        THEN Check(<<>>, [steps |-> <<>>, bits |-> <<>>])
        ELSE Check(NameChain(in.v, in.below), NameStack(in.v, in.below))
  /\ UNCHANGED <<cfg, mem, stamps, out, sys>>

NextName == CheckName(1)

SpecName == InitName /\ [][NextName]_vars

\* step v is a name tag as the claim describes one
IsNameTag(v) ==
  /\ v.dir = 1
  /\ v.sib_alg = GT_HASHALG_SHA224
  /\ v.tag = 0
  /\ 2 + v.L <= 28
  /\ v.pad = "zero" \/ 2 + v.L = 28

\* C23: checkName takes the top step as a name tag iff its direction byte is
\* 1, its sibling algorithm is SHA-224, sibling byte 0 is 0, sibling byte 1 is
\* a length L with 2 + L <= 28 and sibling bytes 2 + L .. 27 are zero; then
\* the name is sibling bytes [2, 2 + L) and the step's bit leaves the stack
\* (the cluster is made of the bits below it); otherwise the stack and the
\* name outputs are unchanged.
C23_NameTag ==
  call.op = "checkName"
  => LET in == cfg[1]
         r == call.data
     IN IF in.below >= 0 /\ IsNameTag(in.v)
        THEN /\ r.name = [i \in 1..in.v.L |-> 64 + i]
             /\ r.name_len = in.v.L
             /\ r.len = in.below
             /\ r.cluster = Pow2(in.below) - 1
        ELSE /\ r.name = in.name
             /\ r.name_len = Len(in.name)
             /\ r.len = in.below + 1
             /\ r.cluster = IF in.below < 0 THEN 0
                            ELSE (1 - in.v.dir) * Pow2(in.below) + (Pow2(in.below) - 1)

\* a name of 26 bytes, which fills the sibling, has been taken from a step
\* above two others
C23_Witness ==
  /\ call.op = "checkName"
  /\ cfg[1].v.L = 26
  /\ cfg[1].below = 2
  /\ call.data.name_len = 26
  /\ call.data.len = 2
  /\ call.data.cluster = 3

\* the index of the first run of chain d with a level greater than 80
\* (0 if there is none), and whether its first step is complete
HasherRun(d) ==
  IF \E k \in 1..Len(d.runs) : d.runs[k].level > 80
  THEN CHOOSE k \in 1..Len(d.runs) :
         d.runs[k].level > 80 /\ \A j \in 1..(k - 1) : d.runs[j].level <= 80
  ELSE 0

HasHasherStep(d) ==
  /\ HasherRun(d) > 0
  /\ ~(d.tail = "cut" /\ HasherRun(d) = Len(d.runs) /\ d.runs[HasherRun(d)].count = 1)

\* the number of bytes of the runs of d before run k
RECURSIVE BytesBefore(_, _)
BytesBefore(d, k) ==
  IF k <= 1 THEN 0
  ELSE BytesBefore(d, k - 1) + d.runs[k - 1].count * Len(StepBytes(d.runs[k - 1]))

\* a measure of the work extractLocation has left: the bytes not yet parsed
\* and the blocks of the loop body not yet run
BlocksLeft(pc) ==
  CASE pc = "hasher" -> 9 [] pc = "top" -> 8 [] pc = "national" -> 7
    [] pc = "state" -> 6 [] pc = "client" -> 5 [] pc = "push" -> 4
    [] pc = "step" -> 3 [] pc = "pack" -> 2 [] pc = "return" -> 1
    [] pc = "done" -> 0

WorkLeft ==
  LET length == BytesBefore(cfg[1], Len(cfg[1].runs) + 1)
                  + (CASE cfg[1].tail = "garbage" -> 2
                       [] cfg[1].tail = "cut" -> -1
                       [] OTHER -> 0)
  IN IF call.op = "none" THEN 16 * (length + 2)
     ELSE 16 * (length + 1 - call.info.s.p) + BlocksLeft(call.info.pc)

\* what extractLocation returns, and what createVerificationInfo makes of it
LocationReturned ==
  call.op = "extractLocation" /\ call.res \in {"GT_OK", "GT_INVALID_LINKING_INFO"}
  => LET d == cfg[1]
     IN /\ call.res = "GT_OK" <=> HasHasherStep(d)
        /\ call.res = "GT_OK"
           => call.info.s.p = BytesBefore(d, HasherRun(d))
                                + Len(StepBytes(d.runs[HasherRun(d)]))
        /\ call.info.pc = "done"
           => out = IF call.res = "GT_OK" THEN GT_NO_FAILURES
                    ELSE GT_SYNTACTIC_CHECK_FAILURE

C25_IndexInBounds ==
  StepDone("step") \/ StepDone("push")
  => call.info.s.num_bits >= 0 /\ call.info.s.num_bits <= StackSize - 1

\* the assertions of the collectBits calls of the block the decoder is about
\* to run (TRUE if the block's condition does not hold)
BlockAsserts(chain) ==
  LET m == call.info
      Fires(region) == StepDone(region) /\ RegionFires(region, m.hash_level, m.s.last_level)
  IN /\ Fires("hasher") => collectBitsAsserts(m.s.num_bits, m.s.num_bits)
     /\ Fires("top") => RegionAsserts(chain, m.s, ab_bits_top, slot_bits_top)
     /\ Fires("national") => RegionAsserts(chain, m.s, ab_bits_national, slot_bits_national)
     /\ Fires("state") => RegionAsserts(chain, m.s, ab_bits_state, slot_bits_state)

\* C26: at every collectBits call made by extractLocation the stack holds at
\* least as many bits as requested (*len >= num) and no more than 32 bits are
\* requested at once.
C26_AssertionsHold == call.op = "extractLocation" => BlockAsserts(ChainBytes(cfg[1]))

\* C27: the two stacks are aligned: for every index i < num_bits, steps[i]
\* is the step whose direction byte produced bits[i].
C27_StacksAligned ==
  call.op = "extractLocation"
  => \A i \in 1..call.info.s.num_bits : call.info.s.steps[i] = call.info.owners[i]

\* the bytes extractLocation writes into the name buffer: the name and its NUL
NameBytesWritten(name) == IF name = NULL THEN 0 ELSE Len(Deref(name)) + 1

\* C28: the bytes written into the name buffer (names, separators,
\* "[<cluster>]" substitutes and the terminating NUL) never exceed the length
\* allocated for it.
C28_NameFitsBuffer ==
  StepDone("pack")
  => NameBytesWritten(BuildLocationName(call.info.s.loc)) <= LocationNameLen(call.info.s.loc)

\* C29: GT_base32Encode stores at most buf_len bytes into ret (data
\* characters, '-' separators, '=' padding and the terminating NUL), for
\* every data_len >= 1 and every group_len >= 0.
C29_EncodeInsideBuffer ==
  call.op = "GT_base32Encode"
  => LET in == cfg[call.arg[1]]
         Stored(r) == Len(r.ret) + 1 <= base32BufLen(Len(in.data), in.group_len)
     IN Stored(GT_base32Encode(in.data, Len(in.data), in.group_len))


(***************************************************************************)
(* SpecBase32Text: GT_base32Decode of strings of up to MaxTextLen          *)
(* characters: letters of both cases, digits inside and outside the        *)
(* alphabet, '-', space and '='.                                           *)
(***************************************************************************)
MaxTextLen == 3

\* 'A', 'z', '2', '7', '0', '1', '8', '9', '-', ' ', '='
TextChars == {65, 122, 50, 55, 48, 49, 56, 57, 45, 32, 61}

Base32Texts == UNION {[1..n -> TextChars] : n \in 1..MaxTextLen}

InitBase32Text ==
  /\ cfg \in {<<x>> : x \in Base32Texts}
  /\ mem = <<>>
  /\ stamps = <<>>
  /\ out = 0
  /\ call = NoCall
  /\ sys = [sizeof_time_t |-> 8]

\* GT_base32Decode() of string i
Base32DecodeText(i) ==
  /\ i \in 1..Len(cfg)
  /\ call.op = "none"
  /\ LET Returned(r) ==
           call' = [NoCall EXCEPT !.op = "GT_base32Decode", !.arg = <<i>>,
                                  !.res = "returned", !.data = r.ret, !.info = r.ret_len]
     IN Returned(GT_base32Decode(cfg[i], Len(cfg[i])))
  /\ UNCHANGED <<cfg, mem, stamps, out, sys>>

NextBase32Text == Base32DecodeText(1)

SpecBase32Text == InitBase32Text /\ [][NextBase32Text]_vars

\* the value of a character of the base32 alphabet, -1 for any other
Base32Value(c) ==
  IF c >= 65 /\ c <= 90 THEN c - 65
  ELSE IF c >= 97 /\ c <= 122 THEN c - 97
  ELSE IF c >= 50 /\ c <= 55 THEN 26 + (c - 50)
  ELSE -1

\* the characters of text before its first '='
BeforePadding(text) ==
  IF \E i \in 1..Len(text) : text[i] = 61
  THEN SubSeq(text, 1, (CHOOSE i \in 1..Len(text) :
                          text[i] = 61 /\ \A j \in 1..(i - 1) : text[j] # 61) - 1)
  ELSE text

\* the alphabet characters of text before its first '='
AlphabetChars(text) ==
  LET InAlphabet(c) == Base32Value(c) >= 0
  IN SelectSeq(BeforePadding(text), InAlphabet)

\* bit k (from 0) of the 5-bit values of the characters
TextBit(chars, k) == (Base32Value(chars[(k \div 5) + 1]) \div Pow2(4 - (k % 5))) % 2

\* the first floor(5 n / 8) bytes of the bits of n alphabet characters
TextBytes(chars) ==
  [j \in 1..((5 * Len(chars)) \div 8) |->
     128 * TextBit(chars, 8 * (j - 1)) + 64 * TextBit(chars, 8 * (j - 1) + 1)
     + 32 * TextBit(chars, 8 * (j - 1) + 2) + 16 * TextBit(chars, 8 * (j - 1) + 3)
     + 8 * TextBit(chars, 8 * (j - 1) + 4) + 4 * TextBit(chars, 8 * (j - 1) + 5)
     + 2 * TextBit(chars, 8 * (j - 1) + 6) + TextBit(chars, 8 * (j - 1) + 7)]

\* C30: GT_base32Decode takes 5 bits from every letter and every digit '2' to
\* '7' before the first '=' and none from any other character: the length
\* returned is floor(5 n / 8) for n such characters, and the bytes are theirs.
C30_OnlyAlphabetDecoded ==
  call.op = "GT_base32Decode"
  => /\ call.info = (5 * Len(AlphabetChars(cfg[1]))) \div 8
     /\ call.data = TextBytes(AlphabetChars(cfg[1]))

=============================================================================
